---------------------------- MODULE Spec2Model ----------------------------
(***************************************************************************)
(* Scripture reference parser and algebra of generate_show:                *)
(* Book, Verse, ScriptureReference (__str__, __eq__, __lt__, from_string). *)
(*                                                                         *)
(* A Python str is a sequence of characters; a character is a one-letter   *)
(* TLA+ string, and the non-ASCII characters the program handles are       *)
(* named tokens (EN_DASH, EM_DASH, NBSP).  Python's None is the integer    *)
(* None for an absent number and the record NoVerse for an absent Verse.   *)
(***************************************************************************)
EXTENDS Integers, Sequences, FiniteSets, TLC

(* ------------------------------ bounds --------------------------------- *)

\* chapter and verse numbers of the inputs: 1..MaxNum and one two-digit number
MaxNum == 2

\* longest run of white space put between the parts of a parser input
MaxSpaces == 1

\* calls of the catalog one process makes
MaxCalls == 2

(* ---------------------------- characters ------------------------------- *)

EN_DASH == "endash"
EM_DASH == "emdash"
HYPHEN == "-"
NBSP == "nbsp"
COLON == ":"
SEMICOLON == ";"

\* DASHES_REGEX = [<en dash> \- <em dash> -]
DASHES_REGEX == {EN_DASH, HYPHEN, EM_DASH}

\* \d
Digit == {"0", "1", "2", "3", "4", "5", "6", "7", "8", "9"}

\* [a-z]
Lower == {"a", "b", "c", "d", "e", "f", "g", "h", "i", "j", "k", "l", "m",
          "n", "o", "p", "q", "r", "s", "t", "u", "v", "w", "x", "y", "z"}

\* [A-Z]
Upper == {"A", "B", "C", "D", "E", "F", "G", "H", "I", "J", "K", "L", "M",
          "N", "O", "P", "Q", "R", "S", "T", "U", "V", "W", "X", "Y", "Z"}

\* \s (of a str pattern: Unicode white space, U+00A0 included)
WhiteSpace == {" ", NBSP}

\* [a-zA-Z\s]
BookChar == Lower \cup Upper \cup WhiteSpace

(* ------------------------------- Book ---------------------------------- *)

\* the members of the enumeration, in declaration (canon) order
Book_members ==
    << "GENESIS", "EXODUS", "LEVITICUS", "NUMBERS", "DEUTERONOMY",
       "JOSHUA", "JUDGES", "RUTH", "SAMUEL1", "SAMUEL2",
       "KINGS1", "KINGS2", "CHRONICLES1", "CHRONICLES2", "EZRA",
       "NEHEMIAH", "ESTHER", "JOB", "PSALMS", "PROVERBS",
       "ECCLESIASTES", "SONG_OF_SOLOMON", "ISAIAH", "JEREMIAH", "LAMENTATIONS",
       "EZEKIEL", "DANIEL", "HOSEA", "JOEL", "AMOS",
       "OBADIAH", "JONAH", "MICAH", "NAHUM", "HABAKKUK",
       "ZEPHANIAH", "HAGGAI", "ZECHARIAH", "MALACHI", "MATTHEW",
       "MARK", "LUKE", "JOHN", "ACTS", "ROMANS",
       "CORINTHIANS1", "CORINTHIANS2", "GALATIANS", "EPHESIANS", "PHILIPPIANS",
       "COLOSSIANS", "THESSALONIANS1", "THESSALONIANS2", "TIMOTHY1", "TIMOTHY2",
       "TITUS", "PHILEMON", "HEBREWS", "JAMES", "PETER1",
       "PETER2", "JOHN1", "JOHN2", "JOHN3", "JUDE",
       "REVELATION", "NEPHI1", "NEPHI2", "JACOB", "ENOS",
       "JAROM", "OMNI", "WORDS_OF_MORMON", "MOSIAH", "ALMA",
       "HELAMAN", "NEPHI3", "NEPHI4", "MORMON", "ETHER",
       "MORONI", "DOCTRINE_AND_COVENANTS", "MOSES", "ABRAHAM", "AOF",
       "JOSEPH_SMITH_HISTORY", "JOSEPH_SMITH_MATTHEW" >>

\* the value (the canonical name) of each member
Book_value ==
    [ GENESIS |-> << "G", "e", "n", "e", "s", "i", "s" >>,
      EXODUS |-> << "E", "x", "o", "d", "u", "s" >>,
      LEVITICUS |-> << "L", "e", "v", "i", "t", "i", "c", "u", "s" >>,
      NUMBERS |-> << "N", "u", "m", "b", "e", "r", "s" >>,
      DEUTERONOMY |-> << "D", "e", "u", "t", "e", "r", "o", "n", "o", "m", "y" >>,
      JOSHUA |-> << "J", "o", "s", "h", "u", "a" >>,
      JUDGES |-> << "J", "u", "d", "g", "e", "s" >>,
      RUTH |-> << "R", "u", "t", "h" >>,
      SAMUEL1 |-> << "1", " ", "S", "a", "m", "u", "e", "l" >>,
      SAMUEL2 |-> << "2", " ", "S", "a", "m", "u", "e", "l" >>,
      KINGS1 |-> << "1", " ", "K", "i", "n", "g", "s" >>,
      KINGS2 |-> << "2", " ", "K", "i", "n", "g", "s" >>,
      CHRONICLES1 |-> << "1", " ", "C", "h", "r", "o", "n", "i", "c", "l", "e", "s" >>,
      CHRONICLES2 |-> << "2", " ", "C", "h", "r", "o", "n", "i", "c", "l", "e", "s" >>,
      EZRA |-> << "E", "z", "r", "a" >>,
      NEHEMIAH |-> << "N", "e", "h", "e", "m", "i", "a", "h" >>,
      ESTHER |-> << "E", "s", "t", "h", "e", "r" >>,
      JOB |-> << "J", "o", "b" >>,
      PSALMS |-> << "P", "s", "a", "l", "m", "s" >>,
      PROVERBS |-> << "P", "r", "o", "v", "e", "r", "b", "s" >>,
      ECCLESIASTES |-> << "E", "c", "c", "l", "e", "s", "i", "a", "s", "t", "e", "s" >>,
      SONG_OF_SOLOMON |-> << "S", "o", "n", "g", " ", "o", "f", " ", "S", "o", "l", "o", "m", "o", "n" >>,
      ISAIAH |-> << "I", "s", "a", "i", "a", "h" >>,
      JEREMIAH |-> << "J", "e", "r", "e", "m", "i", "a", "h" >>,
      LAMENTATIONS |-> << "L", "a", "m", "e", "n", "t", "a", "t", "i", "o", "n", "s" >>,
      EZEKIEL |-> << "E", "z", "e", "k", "i", "e", "l" >>,
      DANIEL |-> << "D", "a", "n", "i", "e", "l" >>,
      HOSEA |-> << "H", "o", "s", "e", "a" >>,
      JOEL |-> << "J", "o", "e", "l" >>,
      AMOS |-> << "A", "m", "o", "s" >>,
      OBADIAH |-> << "O", "b", "a", "d", "i", "a", "h" >>,
      JONAH |-> << "J", "o", "n", "a", "h" >>,
      MICAH |-> << "M", "i", "c", "a", "h" >>,
      NAHUM |-> << "N", "a", "h", "u", "m" >>,
      HABAKKUK |-> << "H", "a", "b", "a", "k", "k", "u", "k" >>,
      ZEPHANIAH |-> << "Z", "e", "p", "h", "a", "n", "i", "a", "h" >>,
      HAGGAI |-> << "H", "a", "g", "g", "a", "i" >>,
      ZECHARIAH |-> << "Z", "e", "c", "h", "a", "r", "i", "a", "h" >>,
      MALACHI |-> << "M", "a", "l", "a", "c", "h", "i" >>,
      MATTHEW |-> << "M", "a", "t", "t", "h", "e", "w" >>,
      MARK |-> << "M", "a", "r", "k" >>,
      LUKE |-> << "L", "u", "k", "e" >>,
      JOHN |-> << "J", "o", "h", "n" >>,
      ACTS |-> << "A", "c", "t", "s" >>,
      ROMANS |-> << "R", "o", "m", "a", "n", "s" >>,
      CORINTHIANS1 |-> << "1", " ", "C", "o", "r", "i", "n", "t", "h", "i", "a", "n", "s" >>,
      CORINTHIANS2 |-> << "2", " ", "C", "o", "r", "i", "n", "t", "h", "i", "a", "n", "s" >>,
      GALATIANS |-> << "G", "a", "l", "a", "t", "i", "a", "n", "s" >>,
      EPHESIANS |-> << "E", "p", "h", "e", "s", "i", "a", "n", "s" >>,
      PHILIPPIANS |-> << "P", "h", "i", "l", "i", "p", "p", "i", "a", "n", "s" >>,
      COLOSSIANS |-> << "C", "o", "l", "o", "s", "s", "i", "a", "n", "s" >>,
      THESSALONIANS1 |-> << "1", " ", "T", "h", "e", "s", "s", "a", "l", "o", "n", "i", "a", "n", "s" >>,
      THESSALONIANS2 |-> << "2", " ", "T", "h", "e", "s", "s", "a", "l", "o", "n", "i", "a", "n", "s" >>,
      TIMOTHY1 |-> << "1", " ", "T", "i", "m", "o", "t", "h", "y" >>,
      TIMOTHY2 |-> << "2", " ", "T", "i", "m", "o", "t", "h", "y" >>,
      TITUS |-> << "T", "i", "t", "u", "s" >>,
      PHILEMON |-> << "P", "h", "i", "l", "e", "m", "o", "n" >>,
      HEBREWS |-> << "H", "e", "b", "r", "e", "w", "s" >>,
      JAMES |-> << "J", "a", "m", "e", "s" >>,
      PETER1 |-> << "1", " ", "P", "e", "t", "e", "r" >>,
      PETER2 |-> << "2", " ", "P", "e", "t", "e", "r" >>,
      JOHN1 |-> << "1", " ", "J", "o", "h", "n" >>,
      JOHN2 |-> << "2", " ", "J", "o", "h", "n" >>,
      JOHN3 |-> << "3", " ", "J", "o", "h", "n" >>,
      JUDE |-> << "J", "u", "d", "e" >>,
      REVELATION |-> << "R", "e", "v", "e", "l", "a", "t", "i", "o", "n" >>,
      NEPHI1 |-> << "1", " ", "N", "e", "p", "h", "i" >>,
      NEPHI2 |-> << "2", " ", "N", "e", "p", "h", "i" >>,
      JACOB |-> << "J", "a", "c", "o", "b" >>,
      ENOS |-> << "E", "n", "o", "s" >>,
      JAROM |-> << "J", "a", "r", "o", "m" >>,
      OMNI |-> << "O", "m", "n", "i" >>,
      WORDS_OF_MORMON |-> << "W", "o", "r", "d", "s", " ", "o", "f", " ", "M", "o", "r", "m", "o", "n" >>,
      MOSIAH |-> << "M", "o", "s", "i", "a", "h" >>,
      ALMA |-> << "A", "l", "m", "a" >>,
      HELAMAN |-> << "H", "e", "l", "a", "m", "a", "n" >>,
      NEPHI3 |-> << "3", " ", "N", "e", "p", "h", "i" >>,
      NEPHI4 |-> << "4", " ", "N", "e", "p", "h", "i" >>,
      MORMON |-> << "M", "o", "r", "m", "o", "n" >>,
      ETHER |-> << "E", "t", "h", "e", "r" >>,
      MORONI |-> << "M", "o", "r", "o", "n", "i" >>,
      DOCTRINE_AND_COVENANTS |-> << "D", "o", "c", "t", "r", "i", "n", "e", " ", "a", "n", "d", " ", "C", "o", "v", "e", "n", "a", "n", "t", "s" >>,
      MOSES |-> << "M", "o", "s", "e", "s" >>,
      ABRAHAM |-> << "A", "b", "r", "a", "h", "a", "m" >>,
      AOF |-> << "A", "r", "t", "i", "c", "l", "e", "s", " ", "o", "f", " ", "F", "a", "i", "t", "h" >>,
      JOSEPH_SMITH_HISTORY |-> << "J", "o", "s", "e", "p", "h", " ", "S", "m", "i", "t", "h", EM_DASH, "H", "i", "s", "t", "o", "r", "y" >>,
      JOSEPH_SMITH_MATTHEW |-> << "J", "o", "s", "e", "p", "h", " ", "S", "m", "i", "t", "h", EM_DASH, "M", "a", "t", "t", "h", "e", "w" >> ]

Book == DOMAIN Book_value

\* enumerate(Book): the position of a member in the declaration order
book_order(b) == CHOOSE i \in DOMAIN Book_members : Book_members[i] = b

\* Book(value): the member with that value; a ValueError when there is none
IsBookValue(name) == \E b \in Book : Book_value[b] = name
BookOf(name) == CHOOSE b \in Book : Book_value[b] = name

(* ------------------------------- Verse --------------------------------- *)

\* Python's None where a number may be absent
None == -1

\* Python's None where a Verse may be absent (end_verse)
NoVerse == [book |-> "None", chapter |-> None, verse |-> None]

\* Verse(book=..., chapter=..., verse=...)
Verse(b, c, v) == [book |-> b, chapter |-> c, verse |-> v]

\* the field constraints of Verse: chapter: int > 0, verse: int > 0 | None
VerseFieldsValid(c, v) == c > 0 /\ (v = None \/ v > 0)

\* str(n) of a non-negative int
RECURSIVE IntToStr(_)
IntToStr(n) ==
    LET d == << "0", "1", "2", "3", "4", "5", "6", "7", "8", "9" >>
    IN  IF n < 10 THEN << d[n + 1] >> ELSE IntToStr(n \div 10) \o << d[(n % 10) + 1] >>

\* int(s) of a non-empty string of digits
RECURSIVE StrToInt(_)
StrToInt(s) ==
    LET val(ch) == CHOOSE k \in 0..9 : IntToStr(k) = << ch >>
    IN  IF Len(s) = 1 THEN val(s[1])
        ELSE 10 * StrToInt(SubSeq(s, 1, Len(s) - 1)) + val(s[Len(s)])

\* Verse.__str__
Verse__str__(v) ==
    LET string0 == Book_value[v.book]
        string1 == IF v.chapter # None THEN string0 \o << " " >> \o IntToStr(v.chapter)
                   ELSE string0
    IN  IF v.verse # None THEN string1 \o << COLON >> \o IntToStr(v.verse) ELSE string1

\* changed: the chapters alone decide
Verse__lt__chapter_only(self, other) ==
    IF self.book # other.book THEN "NotImplemented"
    ELSE IF self.chapter < other.chapter THEN "True" ELSE "False"

\* changed: verses of different books are ordered by their books
Verse__lt__book_order(self, other) ==
    IF self.book # other.book
    THEN (IF book_order(self.book) < book_order(other.book) THEN "True" ELSE "False")
    ELSE IF self.chapter # other.chapter
         THEN (IF self.chapter < other.chapter THEN "True" ELSE "False")
    ELSE IF self.verse = other.verse THEN "False"
    ELSE IF self.verse = None \/ other.verse = None THEN "TypeError"
    ELSE IF self.verse < other.verse THEN "True" ELSE "False"

\* Verse.__lt__: "NotImplemented" for another book; otherwise the comparison
\* of the tuples (chapter, verse), which raises TypeError when it has to order
\* None against a number
Verse__lt__(self, other) ==
    IF self.book # other.book THEN "NotImplemented"
    ELSE IF self.chapter # other.chapter
         THEN (IF self.chapter < other.chapter THEN "True" ELSE "False")
    ELSE IF self.verse = other.verse THEN "False"
    ELSE IF self.verse = None \/ other.verse = None THEN "TypeError"
    ELSE IF self.verse < other.verse THEN "True" ELSE "False"

(* -------------------------- ScriptureReference ------------------------- *)

\* ScriptureReference.verify_start_end: the value the validator returns
verify_start_end(self) ==
    IF self.end_verse = NoVerse THEN self
    ELSE IF self.end_verse = self.start_verse
         THEN [start_verse |-> self.start_verse, end_verse |-> NoVerse]
    ELSE self

\* ScriptureReference(start_verse=..., end_verse=...): __init__ validates the
\* instance under construction in place; the "after" validator runs on it, and
\* the instance it returns is not adopted, so the fields stay as given
ScriptureReference(start, end) ==
    LET self == [start_verse |-> start, end_verse |-> end]
        returned == verify_start_end(self)
    IN  self

\* changed: a start verse without a verse number does not bring the end
\* chapter into the rendered range
ScriptureReference__str__no_anchor(self) ==
    LET s == self.start_verse
        e == self.end_verse
        string == Verse__str__(s)
    IN  IF e = NoVerse \/ s = e THEN string
        ELSE IF s.book = e.book /\ s.verse = None /\ e.verse = None
             THEN string \o << HYPHEN >> \o IntToStr(e.chapter)
        ELSE IF s.book # e.book \/ e.verse = None
             THEN string \o << HYPHEN >> \o Verse__str__(e)
        ELSE IF s.chapter # e.chapter
             THEN string \o << HYPHEN >> \o IntToStr(e.chapter) \o << COLON >>
                  \o IntToStr(e.verse)
        ELSE string \o << HYPHEN >> \o IntToStr(e.verse)

\* changed: the end chapter is written before every end verse number
ScriptureReference__str__end_chapter(self) ==
    LET s == self.start_verse
        e == self.end_verse
        string == Verse__str__(s)
    IN  IF e = NoVerse \/ s = e THEN string
        ELSE IF s.book = e.book /\ s.verse = None /\ e.verse = None
             THEN string \o << HYPHEN >> \o IntToStr(e.chapter)
        ELSE IF s.book # e.book \/ e.verse = None
             THEN string \o << HYPHEN >> \o Verse__str__(e)
        ELSE string \o << HYPHEN >> \o IntToStr(e.chapter) \o << COLON >>
             \o IntToStr(e.verse)

\* changed: an end chapter of the start book is written as its number alone,
\* whether or not the start verse has a verse number
ScriptureReference__str__bare_end_chapter(self) ==
    LET s == self.start_verse
        e == self.end_verse
        string == Verse__str__(s)
    IN  IF e = NoVerse \/ s = e THEN string
        ELSE IF s.book = e.book /\ e.verse = None
             THEN string \o << HYPHEN >> \o IntToStr(e.chapter)
        ELSE IF s.book # e.book
             THEN string \o << HYPHEN >> \o Verse__str__(e)
        ELSE IF s.chapter # e.chapter \/ s.verse = None
             THEN string \o << HYPHEN >> \o IntToStr(e.chapter) \o << COLON >>
                  \o IntToStr(e.verse)
        ELSE string \o << HYPHEN >> \o IntToStr(e.verse)

\* ScriptureReference.__str__
ScriptureReference__str__(self) ==
    LET s == self.start_verse
        e == self.end_verse
        string == Verse__str__(s)
    IN  IF e = NoVerse \/ s = e THEN string
        ELSE IF s.book = e.book /\ s.verse = None /\ e.verse = None
             THEN string \o << HYPHEN >> \o IntToStr(e.chapter)
        ELSE IF s.book # e.book \/ e.verse = None
             THEN string \o << HYPHEN >> \o Verse__str__(e)
        ELSE LET string1 ==
                     IF s.chapter # e.chapter
                        \/ (s.book = e.book /\ s.verse = None /\ e.verse # None)
                     THEN string \o << HYPHEN >> \o IntToStr(e.chapter)
                          \o (IF e.verse # None THEN << COLON >> ELSE << >>)
                     ELSE string \o << HYPHEN >>
             IN  IF e.verse # None THEN string1 \o IntToStr(e.verse) ELSE string1

\* changed: equality of the fields, as the base class compares
ScriptureReference__eq__fields(self, other) ==
    self.start_verse = other.start_verse /\ self.end_verse = other.end_verse

\* ScriptureReference.__eq__
ScriptureReference__eq__(self, other) ==
    IF self.start_verse # other.start_verse THEN FALSE
    ELSE IF self.end_verse = NoVerse
            /\ (other.end_verse = NoVerse \/ other.start_verse = other.end_verse)
         THEN TRUE
    ELSE IF other.end_verse = NoVerse /\ self.start_verse = self.end_verse THEN TRUE
    ELSE self.end_verse = other.end_verse

(* ------------------------ SCRIPTUREVERSE_REGEX ------------------------- *)

\* the end of the longest run of characters of class cls that starts at
\* position i of s (the position after the run; i when the run is empty)
SpanEnd(s, i, cls) ==
    CHOOSE j \in i..(Len(s) + 1) :
        /\ \A k \in i..(j - 1) : s[k] \in cls
        /\ (j = Len(s) + 1 \/ s[j] \notin cls)

\* s has the characters of lit at position i
HasAt(s, i, lit) ==
    /\ i + Len(lit) - 1 <= Len(s)
    /\ \A k \in 1..Len(lit) : s[i + k - 1] = lit[k]

JosephSmith == << "J", "o", "s", "e", "p", "h", " ", "S", "m", "i", "t", "h" >>
History == << "H", "i", "s", "t", "o", "r", "y" >>
Matthew == << "M", "a", "t", "t", "h", "e", "w" >>

\* BOOK_NAME_REGEX at position i, followed by \s*(\d+): the position after the
\* book name, 0 when there is no match.
\*   first alternative  \d*\s*[a-zA-Z\s]+ : the greedy digits, then the whole
\*     run of letters and white space (at least one; \s* hands its white space
\*     back to the class when the run has no letter), and a digit must follow;
\*     a shorter run never helps, it stops before a letter or white space;
\*   second alternative Joseph Smith{DASHES_REGEX}(?:History|Matthew), tried
\*     when the first fails, then \s* and a digit.
BookAlternatives(s, i, d, r, e) ==
    IF r > d /\ r <= Len(s) /\ s[r] \in Digit THEN r
    ELSE IF /\ HasAt(s, i, JosephSmith)
            /\ i + Len(JosephSmith) <= Len(s)
            /\ s[i + Len(JosephSmith)] \in DASHES_REGEX
            /\ \/ HasAt(s, i + Len(JosephSmith) + 1, History)
               \/ HasAt(s, i + Len(JosephSmith) + 1, Matthew)
            /\ SpanEnd(s, e, WhiteSpace) <= Len(s)
            /\ s[SpanEnd(s, e, WhiteSpace)] \in Digit
         THEN e
    ELSE 0

BookAfterDigits(s, i, d) ==
    BookAlternatives(s, i, d, SpanEnd(s, d, BookChar),
                     i + Len(JosephSmith) + 1 + Len(History))

BOOK_NAME_REGEX_end(s, i) == BookAfterDigits(s, i, SpanEnd(s, i, Digit))

\* the groups of a match; an empty group is a group that did not take part
NoMatch ==
    [matched |-> FALSE, g1 |-> << >>, g2 |-> << >>, g3 |-> << >>,
     g5 |-> << >>, g6 |-> << >>, g9 |-> << >>]

\* \s* at position i: the position after the white space
SkipSpace(s, i) == SpanEnd(s, i, WhiteSpace)

\* (\d+) at position i: the digits, none when no digit is there
Digits(s, i) == SubSeq(s, i, SpanEnd(s, i, Digit) - 1)

\* (?::(\d+))? at position i: the digits after the colon, none when the
\* group does not take part
ColonDigits(s, i) ==
    IF i + 1 <= Len(s) /\ s[i] = COLON /\ s[i + 1] \in Digit THEN Digits(s, i + 1)
    ELSE << >>

\* (?:\s*([a-z]+)\s*(\d+))? with its word at x0..x1-1 and its number at
\* x2..x3-1, tried at position i: the position after it
AfterWordNumber(i, x0, x1, x2, x3) == IF x1 > x0 /\ x3 > x2 THEN x3 ELSE i

WordNumberTo(s, i, x0, x1, x2) == AfterWordNumber(i, x0, x1, x2, SpanEnd(s, x2, Digit))

WordNumberFrom(s, i, x0, x1) == WordNumberTo(s, i, x0, x1, SkipSpace(s, x1))

SkipWordNumber(s, i) ==
    WordNumberFrom(s, i, SkipSpace(s, i), SpanEnd(s, SkipSpace(s, i), Lower))

\* the range clause from its chapter number on, at position c0, after the
\* book group g5:  (\d+)(?:\s*([a-z]+)\s*(\d+))?(?::(\d+))?
RangeNumbers(s, g5, c0) ==
    IF Digits(s, c0) = << >> THEN NoMatch
    ELSE [matched |-> TRUE, g1 |-> << >>, g2 |-> << >>, g3 |-> << >>,
          g5 |-> g5,
          g6 |-> Digits(s, c0),
          g9 |-> ColonDigits(s, SkipWordNumber(s, SpanEnd(s, c0, Digit)))]

\* the range clause from its optional book on, at position w2, where the book
\* name ends at b (0: no book name):  (BOOK)?\s*(\d+)...
RangeBook(s, w2, b) ==
    IF b # 0 THEN RangeNumbers(s, SubSeq(s, w2, b - 1), SkipSpace(s, b))
    ELSE RangeNumbers(s, << >>, w2)

\* the range clause from its dash on, at position w1:  DASH\s*(BOOK)?...
RangeDash(s, w1) ==
    IF w1 > Len(s) THEN NoMatch
    ELSE IF s[w1] \notin DASHES_REGEX THEN NoMatch
    ELSE RangeBook(s, SkipSpace(s, w1 + 1), BOOK_NAME_REGEX_end(s, SkipSpace(s, w1 + 1)))

\* the optional range clause, group 4, at position i:
\*   (\s*DASH\s*(BOOK)?\s*(\d+)(?:\s*([a-z]+)\s*(\d+))?(?::(\d+))?)?
RangeClause(s, i) == RangeDash(s, SkipSpace(s, i))

\* the groups of a match whose book name is s[i..b-1], whose chapter is g2 and
\* whose verse group is g3, with the range clause rng
Groups(s, i, b, g2, g3, rng) ==
    [matched |-> TRUE, g1 |-> SubSeq(s, i, b - 1), g2 |-> g2, g3 |-> g3,
     g5 |-> rng.g5, g6 |-> rng.g6, g9 |-> rng.g9]

\* the match from the verse group on, at position c1:  (?::(\d+))?(range)?
AfterChapter(s, i, b, g2, c1, g3) ==
    Groups(s, i, b, g2, g3,
           RangeClause(s, IF g3 = << >> THEN c1 ELSE c1 + 1 + Len(g3)))

\* the match from the chapter on, at position c0:  (\d+)(?::(\d+))?(range)?
AfterBook(s, i, b, c0) ==
    AfterChapter(s, i, b, Digits(s, c0), SpanEnd(s, c0, Digit),
                 ColonDigits(s, SpanEnd(s, c0, Digit)))

\* the regular expression tried at position i of s, where the book name ends
\* at b (0: no book name followed by a chapter number):
\*   (BOOK)\s*(\d+)(?::(\d+))?(range clause)?
\* Every part after group 2 is optional, so the greedy choice of each part
\* stands once the book and the chapter have matched.
MatchBook(s, i, b) == IF b = 0 THEN NoMatch ELSE AfterBook(s, i, b, SkipSpace(s, b))

SCRIPTUREVERSE_REGEX_at(s, i) == MatchBook(s, i, BOOK_NAME_REGEX_end(s, i))

\* changed: SCRIPTUREVERSE_REGEX.search(s), the first position with a match
SCRIPTUREVERSE_REGEX_search(s) ==
    IF \E i \in 1..(Len(s) + 1) : SCRIPTUREVERSE_REGEX_at(s, i).matched
    THEN SCRIPTUREVERSE_REGEX_at(s,
             CHOOSE i \in 1..(Len(s) + 1) :
                 /\ SCRIPTUREVERSE_REGEX_at(s, i).matched
                 /\ \A k \in 1..(i - 1) : ~SCRIPTUREVERSE_REGEX_at(s, k).matched)
    ELSE NoMatch

\* SCRIPTUREVERSE_REGEX.match(s): the match that starts at the first character
SCRIPTUREVERSE_REGEX_match(s) == SCRIPTUREVERSE_REGEX_at(s, 1)

(* ----------------------------- from_string ----------------------------- *)

\* str.strip()
Strip(s) ==
    LET keep == {k \in DOMAIN s : s[k] \notin WhiteSpace}
        first == CHOOSE k \in keep : \A m \in keep : k <= m
        last == CHOOSE k \in keep : \A m \in keep : m <= k
    IN  IF keep = {} THEN << >> ELSE SubSeq(s, first, last)

\* re.sub(r"\s+", " ", s)
RECURSIVE CollapseWhiteSpace(_)
CollapseWhiteSpace(s) ==
    IF s = << >> THEN << >>
    ELSE IF s[1] \in WhiteSpace
         THEN << " " >> \o CollapseWhiteSpace(SubSeq(s, SpanEnd(s, 1, WhiteSpace), Len(s)))
    ELSE << s[1] >> \o CollapseWhiteSpace(Tail(s))

\* changed: s.replace("Joseph Smith-", "Joseph Smith<em dash>"), the hyphen only
JosephSmithHyphen(s) ==
    [k \in DOMAIN s |->
        IF /\ s[k] = HYPHEN
           /\ k > Len(JosephSmith)
           /\ HasAt(s, k - Len(JosephSmith), JosephSmith)
        THEN EM_DASH ELSE s[k]]

\* re.sub(rf"Joseph Smith{DASHES_REGEX}", "Joseph Smith<em dash>", s)
JosephSmithDash(s) ==
    [k \in DOMAIN s |->
        IF /\ s[k] \in DASHES_REGEX
           /\ k > Len(JosephSmith)
           /\ HasAt(s, k - Len(JosephSmith), JosephSmith)
        THEN EM_DASH ELSE s[k]]

\* the book name from_string looks up for a matched book group
NormalizeBook(g) == JosephSmithDash(CollapseWhiteSpace(Strip(g)))

\* ref.count(":")
CountColons(s) == Cardinality({k \in DOMAIN s : s[k] = COLON})

\* the outcome of a call: a returned value, or the exception raised
Returned(v) == [status |-> "ok", value |-> v]
Raised(exc) == [status |-> exc, value |-> [start_verse |-> NoVerse, end_verse |-> NoVerse]]

\* the direct base class of each exception the parser can raise
ExceptionBase ==
    [ScriptureReferenceError |-> "ValueError",
     ValidationError |-> "ValueError",
     ValueError |-> "Exception"]

\* changed: the double duty of group 6 without the test for an end book
double_duty_any_book(ref, end_chapter, end_verse, end_book_given) ==
    CountColons(ref) = 1 /\ end_chapter # None /\ end_verse = None

\* changed: the double duty of group 6 without the test for an end verse
double_duty_any_verse(ref, end_chapter, end_verse, end_book_given) ==
    CountColons(ref) = 1 /\ end_chapter # None /\ ~end_book_given

\* changed: the double duty of group 6 for any number of colons
double_duty_any_colons(ref, end_chapter, end_verse, end_book_given) ==
    end_chapter # None /\ end_verse = None /\ ~end_book_given

\* changed: the double duty of group 6 decided by a second colon only
double_duty_two_colons(ref, end_chapter, end_verse, end_book_given) ==
    CountColons(ref) = 2 /\ end_chapter # None /\ end_verse = None /\ ~end_book_given

\* the test of from_string for group 6 being the end verse, not the end chapter
double_duty(ref, end_chapter, end_verse, end_book_given) ==
    /\ CountColons(ref) = 1
    /\ end_chapter # None
    /\ end_verse = None
    /\ ~end_book_given

\* changed: the end verse always takes the book of the start verse
end_book_always_start(end_book_given, end_book, start_book) == start_book

\* the name from_string looks up for the book of the end verse
end_book_name(end_book_given, end_book, start_book) ==
    IF end_book_given THEN end_book ELSE start_book

\* raise ScriptureReferenceError(f"Invalid scripture reference: {ref}")
invalid_reference == Raised("ScriptureReferenceError")

\* int(group) if group else None
OptInt(g) == IF g # << >> THEN StrToInt(g) ELSE None

\* the end of from_string: the Book lookups, the two Verses and the reference,
\* in the order the code builds them; the first failure is the exception
Build(start_book, start_chapter, start_verse, end_name, end_chapter, end_verse) ==
    IF ~IsBookValue(end_name) THEN Raised("ValueError")
    ELSE IF (end_chapter # None \/ end_verse # None)
            /\ ~VerseFieldsValid(IF end_chapter = None THEN start_chapter ELSE end_chapter,
                                 end_verse)
         THEN Raised("ValidationError")
    ELSE IF ~IsBookValue(start_book) THEN Raised("ValueError")
    ELSE IF ~VerseFieldsValid(start_chapter, start_verse) THEN Raised("ValidationError")
    ELSE Returned(ScriptureReference(
             Verse(BookOf(start_book), start_chapter, start_verse),
             IF end_chapter = None /\ end_verse = None THEN NoVerse
             ELSE Verse(BookOf(end_name),
                        IF end_chapter = None THEN start_chapter ELSE end_chapter,
                        end_verse)))

\* the middle of from_string, on the converted groups: the double duty of
\* group 6 and the choice of the end book
Resolve(ref, start_book, start_chapter, start_verse, end_book_given, end_book, end_chapter, end_verse) ==
    Build(start_book, start_chapter, start_verse,
          end_book_name(end_book_given, end_book, start_book),
          IF double_duty(ref, end_chapter, end_verse, end_book_given)
          THEN start_chapter ELSE end_chapter,
          IF double_duty(ref, end_chapter, end_verse, end_book_given)
          THEN end_chapter ELSE end_verse)

\* from_string after the match: the groups stripped, converted and normalized
FromMatch(ref, match) ==
    IF ~match.matched THEN invalid_reference
    ELSE Resolve(ref, NormalizeBook(match.g1), StrToInt(match.g2), OptInt(match.g3),
                 match.g5 # << >>, NormalizeBook(match.g5),
                 OptInt(match.g6), OptInt(match.g9))

\* ScriptureReference.from_string(ref)
from_string(ref) == FromMatch(ref, SCRIPTUREVERSE_REGEX_match(ref))

(* ------------------------------- inputs -------------------------------- *)

\* the books the references are drawn from: a plain name, a name of several
\* words, two numbered books and the two names with a dash
ModelBooks ==
    {"JAROM", "WORDS_OF_MORMON", "NEPHI3", "NEPHI4",
     "JOSEPH_SMITH_HISTORY", "JOSEPH_SMITH_MATTHEW"}

\* the books a written parser input starts with, and the books its range
\* clause names
StartBooks == {"JAROM", "NEPHI3", "JOSEPH_SMITH_HISTORY", "JOSEPH_SMITH_MATTHEW"}
EndBooks == {"JAROM", "NEPHI4", "JOSEPH_SMITH_HISTORY", "JOSEPH_SMITH_MATTHEW"}

Nums == (1..MaxNum) \cup {9 + MaxNum}
OptNums == Nums \cup {None}

Verses == {Verse(b, c, v) : b \in ModelBooks, c \in Nums, v \in OptNums}

\* every reference the constructor builds from these verses
Refs == {ScriptureReference(s, e) : s \in Verses, e \in Verses \cup {NoVerse}}

NoRef == [start_verse |-> NoVerse, end_verse |-> NoVerse]

\* runs of at most MaxSpaces characters of one kind of white space
Gaps == {[i \in 1..k |-> w] : k \in 0..MaxSpaces, w \in WhiteSpace}

\* names that match BOOK_NAME_REGEX and are no value of Book: a misspelt
\* name, a numbered book the canon does not have, a name in lower case
UnknownBook_value ==
    [JARON |-> << "J", "a", "r", "o", "n" >>,
     NEPHI5 |-> << "5", " ", "N", "e", "p", "h", "i" >>,
     jarom |-> << "j", "a", "r", "o", "m" >>]

UnknownBooks == DOMAIN UnknownBook_value

\* the name an input writes for b
WrittenName(b) == IF b \in UnknownBooks THEN UnknownBook_value[b] ELSE Book_value[b]

\* a book name as an input writes it: the dash of the name is the variant d
BookText(b, d) ==
    [k \in DOMAIN WrittenName(b) |->
        IF WrittenName(b)[k] = EM_DASH THEN d ELSE WrittenName(b)[k]]

\* A parser input is written from a form:
\*   kind "ref":        book c[:v] [gap dash gap [book2 ]n[:m]]
\*   kind "lead":       a character no book name starts with, then a "ref"
\*   kind "nochapter":  book[:v], no chapter number after the book name
\*   kind "nobook":     c[:v], no book name before the chapter number
\* dash = "none" is a form without a range clause; book2 = "None" is a range
\* clause without a book name; jsdash is the dash written in the names of the
\* Joseph Smith books.
RangeForms ==
    [dash : DASHES_REGEX, gap : Gaps, book2 : EndBooks \cup {"None"},
     n : Nums, m : OptNums]

NoRange == [dash |-> "none", gap |-> << >>, book2 |-> "None", n |-> None, m |-> None]

HasDashName(b) == b # "None" /\ \E k \in DOMAIN Book_value[b] : Book_value[b][k] = EM_DASH

\* the dash variants that give different texts for the names b and b2
NameDashes(b, b2) == IF HasDashName(b) \/ HasDashName(b2) THEN DASHES_REGEX ELSE {EM_DASH}

RefForms ==
    {[kind |-> "ref", lead |-> "", book |-> b, jsdash |-> d, c |-> c, v |-> v, range |-> r] :
        b \in StartBooks, d \in DASHES_REGEX, c \in Nums, v \in OptNums,
        r \in RangeForms \cup {NoRange}}

\* one form for each input text
ParseForms == {f \in RefForms : f.jsdash \in NameDashes(f.book, f.range.book2)}

LeadChars == {COLON, HYPHEN, "("}

NoMatchForms ==
    {f \in [kind : {"lead", "nochapter", "nobook"}, lead : LeadChars \cup {""},
            book : StartBooks, jsdash : DASHES_REGEX, c : Nums, v : OptNums,
            range : {NoRange}] :
        /\ (f.kind = "lead") = (f.lead # "")
        /\ f.jsdash \in NameDashes(f.book, "None")
        /\ f.kind = "nobook" => f.book = "JAROM"
        /\ f.kind = "nochapter" => f.c = 1}

\* the inputs of the lesson pipeline: references to books of the canon and
\* to names that are no book, as the start book or in the range clause
CallerForms ==
    {[kind |-> "ref", lead |-> "", book |-> b, jsdash |-> EM_DASH, c |-> c, v |-> v,
      range |-> r] :
        b \in {"JAROM", "NEPHI3"} \cup UnknownBooks, c \in Nums, v \in OptNums,
        r \in [dash : {HYPHEN, EN_DASH}, gap : {<< >>},
               book2 : {"None", "NEPHI4"} \cup UnknownBooks,
               n : 1..MaxNum, m : OptNums] \cup {NoRange}}

NoForm ==
    [kind |-> "none", lead |-> "", book |-> "None", jsdash |-> EM_DASH,
     c |-> None, v |-> None, range |-> NoRange]

VerseText(v) == IF v = None THEN << >> ELSE << COLON >> \o IntToStr(v)

RangeText(r, d) ==
    IF r.dash = "none" THEN << >>
    ELSE r.gap \o << r.dash >> \o r.gap
         \o (IF r.book2 = "None" THEN << >> ELSE BookText(r.book2, d) \o << " " >>)
         \o IntToStr(r.n) \o VerseText(r.m)

RefText(f) ==
    BookText(f.book, f.jsdash) \o << " " >> \o IntToStr(f.c) \o VerseText(f.v)
    \o RangeText(f.range, f.jsdash)

InputText(f) ==
    CASE f.kind = "ref" -> RefText(f)
      [] f.kind = "lead" -> << f.lead >> \o RefText(f)
      [] f.kind = "nochapter" -> BookText(f.book, f.jsdash) \o VerseText(f.v)
      [] f.kind = "nobook" -> IntToStr(f.c) \o VerseText(f.v)

(* ------------------------------- catalog ------------------------------- *)

\* A Python dict is the sequence of its items, [key, value], in the order of
\* insertion.
DictKeys(d) == {d[i].key : i \in DOMAIN d}

DictIndex(d, k) == CHOOSE i \in DOMAIN d : d[i].key = k

\* d.get(k), with the value missing for an absent key
DictGet(d, k, missing) ==
    IF k \in DictKeys(d) THEN d[DictIndex(d, k)].value ELSE missing

\* d[k] = v: a new key goes last, a known key keeps its place
DictSet(d, k, v) ==
    IF k \in DictKeys(d) THEN [d EXCEPT ![DictIndex(d, k)].value = v]
    ELSE Append(d, [key |-> k, value |-> v])

\* the defaultdict d after the lookup d[k]: __missing__ inserts an absent key
\* with the value of the default factory, an empty dict at both levels
DefaultDictLookup(d, k) ==
    IF k \in DictKeys(d) THEN d ELSE Append(d, [key |-> k, value |-> << >>])

\* the index after the lookup scriptures[book][chapter]
LookupChapter(scriptures, book, chapter) ==
    DictSet(DefaultDictLookup(scriptures, book), book,
            DefaultDictLookup(DictGet(scriptures, book, << >>), chapter))

\* the value of scriptures[book][chapter]: the verses of the chapter
ChapterVerses(scriptures, book, chapter) ==
    DictGet(DictGet(scriptures, book, << >>), chapter, << >>)

NEWLINE == "\n"

\* "\n".join(lines)
RECURSIVE Join(_)
Join(lines) ==
    IF lines = << >> THEN << >>
    ELSE IF Len(lines) = 1 THEN lines[1]
    ELSE lines[1] \o << NEWLINE >> \o Join(Tail(lines))

\* the None that dict.get returns for an absent key, and its str
PyNone == << "NoneType" >>
NoneStr == << "N", "o", "n", "e" >>

\* f"{str(verse)} {text}"
VerseLine(verse, verse_text) ==
    Verse__str__(verse) \o << " " >> \o (IF verse_text = PyNone THEN NoneStr ELSE verse_text)

\* the lines of the items of a chapter
VerseLines(verses) == [i \in DOMAIN verses |-> VerseLine(verses[i].key, verses[i].value)]

\* the outcome of an operation on the index, and the index it leaves
Outcome(returned, scriptures) == [out |-> returned, scriptures |-> scriptures]

\* get_scripture_text without an end verse, on the index after the lookup
SingleText(self, scriptures) ==
    IF self.start_verse.verse # None
    THEN Returned(VerseLine(self.start_verse,
             DictGet(ChapterVerses(scriptures, self.start_verse.book, self.start_verse.chapter),
                     self.start_verse, PyNone)))
    ELSE Returned(Join(VerseLines(
             ChapterVerses(scriptures, self.start_verse.book, self.start_verse.chapter))))

\* starting_verse: verse 1 of the chapter when the start has no verse number
StartingVerse(self) ==
    IF self.start_verse.verse = None
    THEN Verse(self.start_verse.book, self.start_verse.chapter, 1)
    ELSE self.start_verse

\* the items of the chapters the loops visit in one book
RECURSIVE BookItems(_, _, _, _)
BookItems(book, chapters, i, starting_verse) ==
    IF i > Len(chapters) THEN << >>
    ELSE (IF book = starting_verse.book /\ chapters[i].key < starting_verse.chapter
          THEN << >> ELSE chapters[i].value)
         \o BookItems(book, chapters, i + 1, starting_verse)

\* the items the loops visit, in the order of the dicts
RECURSIVE WalkItems(_, _, _)
WalkItems(scriptures, i, starting_verse) ==
    IF i > Len(scriptures) THEN << >>
    ELSE (IF book_order(scriptures[i].key) < book_order(starting_verse.book)
          THEN << >>
          ELSE BookItems(scriptures[i].key, scriptures[i].value, 1, starting_verse))
         \o WalkItems(scriptures, i + 1, starting_verse)

\* the first position from i on whose key is the verse, 0 when there is none
FirstAt(items, i, verse) ==
    IF i = 0 \/ \A k \in i..Len(items) : items[k].key # verse THEN 0
    ELSE CHOOSE k \in i..Len(items) :
            items[k].key = verse /\ \A j \in i..(k - 1) : items[j].key # verse

\* changed: the walk stops before the ending verse
CollectedBeforeEnd(items, first, last) ==
    IF first = 0 THEN << >>
    ELSE SubSeq(items, first, IF last = 0 THEN Len(items) ELSE last - 1)

\* the items between started and found_end, both inclusive
Collected(items, first, last) ==
    IF first = 0 THEN << >>
    ELSE SubSeq(items, first, IF last = 0 THEN Len(items) ELSE last)

\* the loops of get_scripture_text from starting_verse to ending_verse
WalkText(items, starting_verse, ending_verse) ==
    Join(VerseLines(Collected(items, FirstAt(items, 1, starting_verse),
            FirstAt(items, FirstAt(items, 1, starting_verse), ending_verse))))

\* get_scripture_text with an end verse that has a verse number
RangeText_to_verse(self, scriptures) ==
    Outcome(Returned(WalkText(WalkItems(scriptures, 1, StartingVerse(self)),
                              StartingVerse(self), self.end_verse)),
            scriptures)

\* list(d.keys())[-1] of the verses of the end chapter
LastKey(verses) == verses[Len(verses)].key

\* get_scripture_text with an end verse for a whole chapter, on the index
\* after the lookup of the end chapter
RangeText_to_chapter(self, scriptures) ==
    IF ChapterVerses(scriptures, self.end_verse.book, self.end_verse.chapter) = << >>
    THEN Outcome(Raised("IndexError"), scriptures)
    ELSE Outcome(Returned(WalkText(WalkItems(scriptures, 1, StartingVerse(self)),
                     StartingVerse(self),
                     LastKey(ChapterVerses(scriptures, self.end_verse.book,
                                           self.end_verse.chapter)))),
                 scriptures)

\* self.get_scripture_text(), with scriptures the value of get_scriptures()
get_scripture_text(self, scriptures) ==
    IF self.end_verse = NoVerse
    THEN Outcome(SingleText(self, LookupChapter(scriptures, self.start_verse.book,
                                                self.start_verse.chapter)),
                 LookupChapter(scriptures, self.start_verse.book, self.start_verse.chapter))
    ELSE IF self.end_verse.verse = None
    THEN RangeText_to_chapter(self,
             LookupChapter(scriptures, self.end_verse.book, self.end_verse.chapter))
    ELSE RangeText_to_verse(self, scriptures)

\* the sub-reference for the rest of the start chapter
FirstChapter(self) ==
    ScriptureReference(self.start_verse,
        Verse(self.start_verse.book, self.start_verse.chapter, None))

\* the sub-reference for a whole chapter between start and end
FullChapter(book, current_chapter) ==
    ScriptureReference(Verse(book, current_chapter, 1), Verse(book, current_chapter, None))

\* the sub-reference for the end chapter up to the end verse
LastChapter(self, book, current_chapter) ==
    ScriptureReference(Verse(book, current_chapter, 1), self.end_verse)

\* changed: no break at the end chapter, the loop runs on through the book
RECURSIVE WhileChapters_no_break(_, _, _, _)
WhileChapters_no_break(self, book, current_chapter, len_chapters) ==
    IF current_chapter > len_chapters THEN << >>
    ELSE (IF book = self.end_verse.book /\ current_chapter = self.end_verse.chapter
          THEN << LastChapter(self, book, current_chapter) >>
          ELSE << FullChapter(book, current_chapter) >>)
         \o WhileChapters_no_break(self, book, current_chapter + 1, len_chapters)

\* while current_chapter <= len(chapters): the sub-references of one book
RECURSIVE WhileChapters(_, _, _, _)
WhileChapters(self, book, current_chapter, len_chapters) ==
    IF current_chapter > len_chapters THEN << >>
    ELSE IF book = self.end_verse.book /\ current_chapter = self.end_verse.chapter
    THEN << LastChapter(self, book, current_chapter) >>
    ELSE << FullChapter(book, current_chapter) >>
         \o WhileChapters(self, book, current_chapter + 1, len_chapters)

\* for book, chapters in scriptures.items(), from item i on
RECURSIVE ForBooks(_, _, _, _)
ForBooks(self, scriptures, i, started) ==
    IF i > Len(scriptures) THEN << >>
    ELSE IF \/ book_order(scriptures[i].key) < book_order(self.start_verse.book)
            \/ started /\ book_order(scriptures[i].key) > book_order(self.end_verse.book)
    THEN ForBooks(self, scriptures, i + 1, started)
    ELSE IF scriptures[i].key = self.start_verse.book /\ ~started
    THEN WhileChapters(self, scriptures[i].key, self.start_verse.chapter + 1,
                       Len(scriptures[i].value))
         \o ForBooks(self, scriptures, i + 1, TRUE)
    ELSE WhileChapters(self, scriptures[i].key, 1, Len(scriptures[i].value))
         \o ForBooks(self, scriptures, i + 1, started)

\* the test of split_chapters for a reference within one chapter
SingleChapter(self) ==
    \/ self.end_verse = NoVerse
    \/ /\ self.start_verse.book = self.end_verse.book
       /\ self.start_verse.chapter = self.end_verse.chapter

\* changed: a reference within one chapter is split like any other
split_chapters_always_walks(self, scriptures) ==
    << FirstChapter(self) >> \o ForBooks(self, scriptures, 1, FALSE)

\* self.split_chapters(), with scriptures the value of get_scriptures() when
\* the reference spans chapters (the index is not fetched otherwise)
split_chapters(self, scriptures) ==
    IF SingleChapter(self) THEN << self >>
    ELSE << FirstChapter(self) >> \o ForBooks(self, scriptures, 1, FALSE)

(* ------------------------------- loading ------------------------------- *)

\* lit occurs in s
Contains(s, lit) == \E i \in 1..Len(s) : HasAt(s, i, lit)

\* the first position of lit in s, 0 when s does not contain it
Find(s, lit) ==
    IF ~Contains(s, lit) THEN 0
    ELSE CHOOSE i \in 1..Len(s) : HasAt(s, i, lit) /\ \A j \in 1..(i - 1) : ~HasAt(s, j, lit)

\* text.splitlines()
RECURSIVE splitlines(_)
splitlines(t) ==
    IF t = << >> THEN << >>
    ELSE IF Find(t, << NEWLINE >>) = 0 THEN << t >>
    ELSE << SubSeq(t, 1, Find(t, << NEWLINE >>) - 1) >>
         \o splitlines(SubSeq(t, Find(t, << NEWLINE >>) + 1, Len(t)))

\* the separator of the two fields of a line
FieldSeparator == << " ", " ", " ", " ", " " >>

\* t.split("     ", maxsplit=1)
split_fields(t) ==
    IF Find(t, FieldSeparator) = 0 THEN << t >>
    ELSE << SubSeq(t, 1, Find(t, FieldSeparator) - 1),
            SubSeq(t, Find(t, FieldSeparator) + Len(FieldSeparator), Len(t)) >>

\* dict([tuple(t.split(...)) for t in lines]), from line i on: a line
\* without the separator is a tuple dict() refuses with ValueError
RECURSIVE DictOfLines(_, _, _)
DictOfLines(lines, i, d) ==
    IF i > Len(lines) THEN Returned(d)
    ELSE IF Len(split_fields(lines[i])) # 2 THEN Raised("ValueError")
    ELSE DictOfLines(lines, i + 1,
             DictSet(d, split_fields(lines[i])[1], split_fields(lines[i])[2]))

\* {k.strip(): v.strip() for k, v in parsed.items() if "Joseph Smith" not in k}
RECURSIVE StripItems(_, _, _)
StripItems(parsed, i, d) ==
    IF i > Len(parsed) THEN d
    ELSE StripItems(parsed, i + 1,
             IF Contains(parsed[i].key, JosephSmith) THEN d
             ELSE DictSet(d, Strip(parsed[i].key), Strip(parsed[i].value)))

\* the index, after the lookup of the chapter, with verse_text stored
StoreVerse(scriptures, verse, verse_text) ==
    DictSet(scriptures, verse.book,
        DictSet(DictGet(scriptures, verse.book, << >>), verse.chapter,
            DictSet(ChapterVerses(scriptures, verse.book, verse.chapter),
                    verse, verse_text)))

\* scriptures[ref.start_verse.book][ref.start_verse.chapter][ref.start_verse] = text
SetVerse(scriptures, verse, verse_text) ==
    StoreVerse(LookupChapter(scriptures, verse.book, verse.chapter), verse, verse_text)

\* for ref, text in parsed.items(), from item i on: an exception of
\* from_string leaves the loop and the function
RECURSIVE IndexItems(_, _, _)
IndexItem(parsed, i, scriptures, parsed_ref) ==
    IF parsed_ref.status # "ok" THEN Raised(parsed_ref.status)
    ELSE IndexItems(parsed, i + 1,
             SetVerse(scriptures, parsed_ref.value.start_verse, parsed[i].value))

IndexItems(parsed, i, scriptures) ==
    IF i > Len(parsed) THEN Returned(scriptures)
    ELSE IndexItem(parsed, i, scriptures, from_string(parsed[i].key))

\* the index of the pairs dict() returned
IndexOfPairs(pairs) ==
    IF pairs.status # "ok" THEN Raised(pairs.status)
    ELSE IndexItems(StripItems(pairs.value, 1, << >>), 1, << >>)

\* the body of get_scriptures on the text download_text returned
build_index(t) == IndexOfPairs(DictOfLines(splitlines(t), 1, << >>))

\* the characters of the fetched texts, in the order of their code points
Alphabet ==
    << " ", ":", "-", "\n", "0", "1", "2", "3", "4", "5", "6", "7", "8", "9",
       "a", "b", "c", "d", "e", "f", "g", "h", "i", "j", "k", "l", "m", "n",
       "o", "p", "q", "r", "s", "t", "u", "v", "w", "x", "y", "z", "A", "B",
       "C", "D", "E", "F", "G", "H", "I", "J", "K", "L", "M", "N", "O", "P",
       "Q", "R", "S", "T", "U", "V", "W", "X", "Y", "Z" >>

CharCode(c) == CHOOSE i \in DOMAIN Alphabet : Alphabet[i] = c

\* hashlib.sha256(text.encode()).hexdigest(), as a digest of 16 bits over the
\* characters of the text, taken in blocks of 16 characters: the state h
\* after the characters i..j of a block
RECURSIVE Compress(_, _, _, _)
Compress(h, t, i, j) ==
    IF i > j THEN h
    ELSE Compress((h * 31 + CharCode(t[i])) % 65536, t, i + 1, j)

\* the state after the first b blocks
RECURSIVE Digest(_, _)
Digest(t, b) ==
    IF b = 0 THEN 7
    ELSE (Digest(t, b - 1) * 31
          + Compress(0, t, 16 * (b - 1) + 1, IF 16 * b > Len(t) THEN Len(t) ELSE 16 * b))
         % 65536

sha256(t) == Digest(t, (Len(t) + 15) \div 16)

\* the file of the scriptures: for each book its chapters, for each chapter
\* the number of its verses; Joseph Smith--History stands last in the file
FileBooks ==
    << [book |-> "JAROM", chapters |-> << 2 >>],
       [book |-> "WORDS_OF_MORMON", chapters |-> << 1 >>],
       [book |-> "NEPHI3", chapters |-> << 2, 1, 2 >>],
       [book |-> "NEPHI4", chapters |-> << 2 >>] >>

\* the text the file gives for a verse
FileVerseText(b, c, v) == << "v" >> \o IntToStr(book_order(b)) \o IntToStr(c) \o IntToStr(v)

\* one line of the file: "Book c:v" and the text after five spaces
FileLine(name, c, v, verse_text) ==
    name \o << " " >> \o IntToStr(c) \o << COLON >> \o IntToStr(v)
    \o FieldSeparator \o verse_text \o << NEWLINE >>

RECURSIVE FileVerses(_, _, _, _)
FileVerses(b, c, v, last) ==
    IF v > last THEN << >>
    ELSE FileLine(Book_value[b], c, v, FileVerseText(b, c, v)) \o FileVerses(b, c, v + 1, last)

RECURSIVE FileChapters(_, _, _)
FileChapters(b, chapters, c) ==
    IF c > Len(chapters) THEN << >>
    ELSE FileVerses(b, c, 1, chapters[c]) \o FileChapters(b, chapters, c + 1)

RECURSIVE FileText(_, _)
FileText(books, i) ==
    IF i > Len(books) THEN << >>
    ELSE FileChapters(books[i].book, books[i].chapters, 1) \o FileText(books, i + 1)

\* the text at the address download_text requests
lds_scriptures ==
    FileText(FileBooks, 1)
    \o FileLine(JosephSmith \o << HYPHEN, HYPHEN >> \o History, 1, 1, << "v", "j" >>)

\* the same file after a change upstream: the text of its last verse differs
drifted_scriptures == [lds_scriptures EXCEPT ![Len(lds_scriptures) - 1] = "k"]

\* what a request can return
Fetched == {lds_scriptures, drifted_scriptures}

\* the hash the decorator of download_text is given
expected_sha256_hash == sha256(lds_scriptures)

\* changed: the wrapper returns the text whatever its hash
expected_hash_unchecked(downloaded_text) == Returned(downloaded_text)

\* the wrapper of expected_hash on the text the request returned
expected_hash(downloaded_text) ==
    IF sha256(downloaded_text) # expected_sha256_hash THEN Raised("ValueError")
    ELSE Returned(downloaded_text)

\* a functools.lru_cache(maxsize=1) of a function without arguments
NoCache == [cached |-> FALSE, value |-> << >>]
Cached(v) == [cached |-> TRUE, value |-> v]

\* lru_cache after a call whose outcome is out: a returned value is stored,
\* an exception is not
CacheAfter(cache, outcome) ==
    IF cache.cached \/ outcome.status # "ok" THEN cache ELSE Cached(outcome.value)

\* download_text(): the cached text, or the checked text of a new request
download_text(cache, fetched) ==
    IF cache.cached THEN Returned(cache.value) ELSE expected_hash(fetched)

\* get_scriptures() without its lru_cache
get_scriptures_unmemoized(cache, downloaded) ==
    IF downloaded.status # "ok" THEN Raised(downloaded.status)
    ELSE build_index(downloaded.value)

\* get_scriptures() on the outcome of download_text(): the cached index, or
\* the index built from the text
get_scriptures(cache, downloaded) ==
    IF cache.cached THEN Returned(cache.value)
    ELSE IF downloaded.status # "ok" THEN Raised(downloaded.status)
    ELSE build_index(downloaded.value)

(* ---------------------------- catalog calls ---------------------------- *)

\* the books the catalog calls name: books of the file, and a book of the
\* canon the index leaves out
CallBooks == {"JAROM", "NEPHI3", "NEPHI4", "JOSEPH_SMITH_HISTORY"}

\* the number of chapters the file has for a book
FileChapterCount(b) ==
    IF \E i \in DOMAIN FileBooks : FileBooks[i].book = b
    THEN Len(FileBooks[CHOOSE i \in DOMAIN FileBooks : FileBooks[i].book = b].chapters)
    ELSE 0

\* the number of verses the file has for a chapter
FileVerseCount(b, c) ==
    IF c <= FileChapterCount(b)
    THEN FileBooks[CHOOSE i \in DOMAIN FileBooks : FileBooks[i].book = b].chapters[c]
    ELSE 0

\* the largest chapter number and the largest verse number of the file
FileLastChapter ==
    CHOOSE n \in 1..Len(lds_scriptures) :
        /\ \E b \in Book : FileChapterCount(b) = n
        /\ \A b \in Book : FileChapterCount(b) <= n

FileLastVerse ==
    CHOOSE n \in 1..Len(lds_scriptures) :
        /\ \E b \in Book : \E c \in 1..FileLastChapter : FileVerseCount(b, c) = n
        /\ \A b \in Book : \A c \in 1..FileLastChapter : FileVerseCount(b, c) <= n

\* the verses a call names: the chapters of the book and the one after the
\* last, the verse numbers of the file and the one after the largest
CallVerses ==
    {u \in {Verse(b, c, v) : b \in CallBooks, c \in 1..(FileLastChapter + 1),
                             v \in (1..(FileLastVerse + 1)) \cup {None}} :
        u.chapter <= FileChapterCount(u.book) + 1}

\* the start s is not after the end e: by book, then chapter, then verse,
\* a chapter without verse number standing for any of its verses
NotAfter(s, e) ==
    \/ book_order(s.book) < book_order(e.book)
    \/ /\ s.book = e.book
       /\ \/ s.chapter < e.chapter
          \/ /\ s.chapter = e.chapter
             /\ (s.verse = None \/ e.verse = None \/ s.verse <= e.verse)

\* the references the catalog is called with
CallRefs ==
    {r \in {ScriptureReference(s, e) : s \in CallVerses, e \in CallVerses \cup {NoVerse}} :
        r.end_verse = NoVerse \/ NotAfter(r.start_verse, r.end_verse)}

(* ----------------------------- loaded texts ---------------------------- *)

\* The file behind the expected hash is not part of the repository.  The load
\* is run on the file of the model and on that file with one more line that
\* get_scriptures cannot take: a line without the separator, an empty line,
\* a line with a shorter separator, a line whose reference does not match
\* the grammar, a line whose book is not in the enumeration.
MalformedLines ==
    { << "J", "a", "r", "o", "m", " ", "1", ":", "3", " ", "v", "x" >>,
      << >>,
      << "J", "a", "r", "o", "m", " ", "1", ":", "3", " ", " ", " ", "v", "x" >>,
      << ":", "3" >> \o FieldSeparator \o << "v", "x" >>,
      << "J", "a", "r", "o", "n", " ", "1", ":", "3" >> \o FieldSeparator \o << "v", "x" >> }

\* the lines, each ended by a newline
FileOfLines(lines) == IF lines = << >> THEN << >> ELSE Join(lines) \o << NEWLINE >>

\* the text t with line as its k-th line
WithLine(t, k, line) ==
    FileOfLines(SubSeq(splitlines(t), 1, k - 1) \o << line >>
                \o SubSeq(splitlines(t), k, Len(splitlines(t))))

\* the texts download_text() has returned
LoadTexts ==
    {lds_scriptures}
    \cup {WithLine(lds_scriptures, k, line) :
             k \in 1..(Len(splitlines(lds_scriptures)) + 1), line \in MalformedLines}

(* ---------------------------- lesson inputs ---------------------------- *)

\* the citations of one lesson
MaxCitations == 2

\* the citations a lesson reference is written from: a verse, a range of
\* chapters, a chapter, a name that is no book, a book without a chapter
CitationTexts ==
    { Book_value["JAROM"] \o << " ", "1", ":", "1" >>,
      Book_value["NEPHI3"] \o << " ", "1", EN_DASH, "2" >>,
      Book_value["NEPHI3"] \o << " ", "1" >>,
      UnknownBook_value["JARON"] \o << " ", "1", ":", "1" >>,
      Book_value["JAROM"] }

\* the texts of the anchors: citations, and one written with a
\* non-breaking space
AnchorTexts ==
    (CitationTexts \ {Book_value["JAROM"] \o << " ", "1", ":", "1" >>})
    \cup {Book_value["JAROM"] \o << NBSP, "1", ":", "1" >>}

\* the citations joined with "; "
RECURSIVE JoinCitations(_)
JoinCitations(citations) ==
    IF Len(citations) = 1 THEN citations[1]
    ELSE citations[1] \o << SEMICOLON, " " >> \o JoinCitations(Tail(citations))

\* the sequences over s of the lengths lo..hi
SeqsOf(s, lo, hi) == UNION {[1..n -> s] : n \in lo..hi}

LessonReferences == {JoinCitations(c) : c \in SeqsOf(CitationTexts, 1, MaxCitations)}

AnchorLists == SeqsOf(AnchorTexts, 0, MaxCitations)

(* ----------------------------- loop inputs ----------------------------- *)

\* the references whose loops are run step by step: every start and end of
\* the calls, and so also the ranges whose end precedes their start
LoopRefs ==
    {ScriptureReference(s, e) : s \in CallVerses, e \in CallVerses \cup {NoVerse}}

\* the index as loaded, and the index after earlier calls have looked up a
\* chapter the file does not have and a book the file does not have
LoopIndexes ==
    {build_index(lds_scriptures).value,
     LookupChapter(LookupChapter(build_index(lds_scriptures).value,
                                 "JAROM", FileChapterCount("JAROM") + 1),
                   "JOSEPH_SMITH_HISTORY", 1)}

(* ------------------------------- state --------------------------------- *)

VARIABLES
    pc,      \* the step the caller has reached
    ref,     \* the ScriptureReference the caller holds (NoRef: none)
    form,    \* the form the caller wrote its input from (NoForm: none)
    text,    \* str(ref), or the input text
    result,  \* the outcome of from_string(text)
    text2,   \* str of the parsed reference
    va,      \* the two Verses a caller compares (NoVerse: none)
    vb,
    cmp,     \* the outcomes of the comparisons
    download_text_cache,   \* the lru_cache of download_text
    get_scriptures_cache,  \* the lru_cache of get_scriptures: the index
    requests,              \* the requests download_text has made
    calls,                 \* the catalog calls the caller has made
    out,                   \* the outcome of the latest catalog call
    texts,                 \* the outcome of the loop over the chapters
    anchors,               \* the texts of the scripture-ref anchors of a lesson page
    internal_scriptural_references,  \* what parse_from_text made of them
    lesson_chapters,       \* the chapters generate_scripture_insights works on
    frame                  \* the local variables of the call that is running

vars ==
    << pc, ref, form, text, result, text2, va, vb, cmp,
       download_text_cache, get_scriptures_cache, requests, calls, out, texts,
       anchors, internal_scriptural_references, lesson_chapters, frame >>

\* the parser's part of the state and the catalog's
parser_vars == << form, text, result, text2, va, vb, cmp >>

catalog_vars == << download_text_cache, get_scriptures_cache, requests, calls, out, texts >>

\* the lesson pipeline's part
pipeline_vars == << anchors, internal_scriptural_references, lesson_chapters >>

NoOut == [status |-> "none", value |-> << >>]

\* no call is running
NoFrame ==
    [fn |-> "none", i |-> 0, j |-> 0, k |-> 0, current_chapter |-> 0,
     started |-> FALSE, found_end |-> FALSE,
     starting_verse |-> NoVerse, ending_verse |-> NoVerse, acc |-> << >>]

\* the state of a process that runs no lesson pipeline
NoPipeline ==
    /\ anchors = << >> /\ internal_scriptural_references = NoOut
    /\ lesson_chapters = NoOut

\* the state of a process that has not touched the catalog
NoCatalog ==
    /\ download_text_cache = NoCache /\ get_scriptures_cache = NoCache
    /\ requests = 0 /\ calls = 0 /\ out = NoOut /\ texts = NoOut

NoResult == [status |-> "none", value |-> NoRef]
NoCmp == [lt |-> "none", eq |-> "none", eq_rev |-> "none"]

(* ------------------------------ actions -------------------------------- *)

\* ref_str = str(scripture_ref)
Str ==
    /\ pc = "ref"
    /\ text' = ScriptureReference__str__(ref)
    /\ pc' = "text"
    /\ UNCHANGED << ref, form, result, text2, va, vb, cmp >>
    /\ UNCHANGED catalog_vars
    /\ UNCHANGED pipeline_vars
    /\ UNCHANGED frame

\* ScriptureReference.from_string(text)
FromString ==
    /\ pc = "text"
    /\ result' = from_string(text)
    /\ pc' = "parsed"
    /\ UNCHANGED << ref, form, text, text2, va, vb, cmp >>
    /\ UNCHANGED catalog_vars
    /\ UNCHANGED pipeline_vars
    /\ UNCHANGED frame

\* str(new_scripture_ref), of a reference from_string returned
StrParsed ==
    /\ pc = "parsed"
    /\ result.status = "ok"
    /\ text2' = ScriptureReference__str__(result.value)
    /\ pc' = "done"
    /\ UNCHANGED << ref, form, text, result, va, vb, cmp >>
    /\ UNCHANGED catalog_vars
    /\ UNCHANGED pipeline_vars
    /\ UNCHANGED frame

\* the value of the expression a < b: Verse defines no reflected comparison,
\* so a NotImplemented from __lt__ ends in a TypeError
LessThan(a, b) ==
    IF Verse__lt__(a, b) = "NotImplemented" THEN "TypeError" ELSE Verse__lt__(a, b)

\* a Python bool as the comparisons report it
BoolStr(b) == IF b THEN "True" ELSE "False"

\* verse1 < verse2
CompareVerses ==
    /\ pc = "verses"
    /\ cmp' = [cmp EXCEPT !.lt = LessThan(va, vb)]
    /\ pc' = "compared"
    /\ UNCHANGED << ref, form, text, result, text2, va, vb >>
    /\ UNCHANGED catalog_vars
    /\ UNCHANGED pipeline_vars
    /\ UNCHANGED frame

\* ScriptureReference(va, vb) == ScriptureReference(va, None), and reversed
CompareReferences ==
    /\ pc = "compared"
    /\ LET with_end == ScriptureReference(va, vb)
           none_end == ScriptureReference(va, NoVerse)
       IN  cmp' = [cmp EXCEPT
                     !.eq = BoolStr(ScriptureReference__eq__(with_end, none_end)),
                     !.eq_rev = BoolStr(ScriptureReference__eq__(none_end, with_end))]
    /\ pc' = "equated"
    /\ UNCHANGED << ref, form, text, result, text2, va, vb >>
    /\ UNCHANGED catalog_vars
    /\ UNCHANGED pipeline_vars
    /\ UNCHANGED frame

\* isinstance(exception, cls), for the exception classes of the model
RECURSIVE IsInstance(_, _)
IsInstance(exc, cls) ==
    \/ exc = cls
    \/ exc \in DOMAIN ExceptionBase /\ IsInstance(ExceptionBase[exc], cls)

\* generate_scripture_insights after from_string raised inside its try block:
\* except ScriptureReferenceError runs the fallback over the internal
\* references, any other exception leaves the coroutine
ExceptScriptureReferenceError ==
    /\ pc = "parsed"
    /\ result.status \notin {"ok", "none"}
    /\ pc' = IF IsInstance(result.status, "ScriptureReferenceError")
             THEN "fallback" ELSE "propagated"
    /\ UNCHANGED << ref, form, text, result, text2, va, vb, cmp >>
    /\ UNCHANGED catalog_vars
    /\ UNCHANGED pipeline_vars
    /\ UNCHANGED frame

(* --------------------------- lesson pipeline --------------------------- *)

\* s.replace(old, new)
RECURSIVE replace(_, _, _)
replace(s, old, new) ==
    IF Find(s, old) = 0 THEN s
    ELSE SubSeq(s, 1, Find(s, old) - 1) \o new
         \o replace(SubSeq(s, Find(s, old) + Len(old), Len(s)), old, new)

\* tag.get_text().replace("&nbsp", " ").replace("\xa0", " ")
reference_text(tag_text) ==
    replace(replace(tag_text, << "&", "n", "b", "s", "p" >>, << " " >>), << NBSP >>, << " " >>)

\* parse_from_text: the loop over the texts of the anchors, from text i on.
\* A ScriptureReferenceError or ValueError of from_string is logged and the
\* loop goes on; another exception leaves the function.
RECURSIVE InternalReferences(_, _, _)
InternalReference(tag_texts, i, acc, parsed) ==
    IF parsed.status = "ok"
    THEN InternalReferences(tag_texts, i + 1, Append(acc, parsed.value))
    ELSE IF \/ IsInstance(parsed.status, "ScriptureReferenceError")
            \/ IsInstance(parsed.status, "ValueError")
    THEN InternalReferences(tag_texts, i + 1, acc)
    ELSE Raised(parsed.status)

InternalReferences(tag_texts, i, acc) ==
    IF i > Len(tag_texts) THEN Returned(acc)
    ELSE InternalReference(tag_texts, i, acc, from_string(reference_text(tag_texts[i])))

\* s.split(sep)
RECURSIVE split(_, _)
split(s, sep) ==
    IF Find(s, sep) = 0 THEN << s >>
    ELSE << SubSeq(s, 1, Find(s, sep) - 1) >>
         \o split(SubSeq(s, Find(s, sep) + Len(sep), Len(s)), sep)

\* [ref.strip() for ref in scripture_reference.split(";")], or the lesson
\* reference by itself when it has no semicolon
scripture_refs(scripture_reference) ==
    IF Contains(scripture_reference, << SEMICOLON >>)
    THEN [i \in DOMAIN split(scripture_reference, << SEMICOLON >>) |->
             Strip(split(scripture_reference, << SEMICOLON >>)[i])]
    ELSE << scripture_reference >>

\* the try block of generate_scripture_insights, from reference i on: the
\* chapters of the references, or the exception of the first from_string
\* that raises
RECURSIVE TryChapters(_, _, _, _)
TryChapter(refs, i, scriptures, acc, parsed) ==
    IF parsed.status # "ok" THEN Raised(parsed.status)
    ELSE TryChapters(refs, i + 1, scriptures,
             acc \o split_chapters(parsed.value, scriptures))

TryChapters(refs, i, scriptures, acc) ==
    IF i > Len(refs) THEN Returned(acc)
    ELSE TryChapter(refs, i, scriptures, acc, from_string(refs[i]))

\* the except block: the chapters of the internal references, from i on
RECURSIVE FallbackChapters(_, _, _)
FallbackChapters(refs, i, scriptures) ==
    IF i > Len(refs) THEN << >>
    ELSE split_chapters(refs[i], scriptures) \o FallbackChapters(refs, i + 1, scriptures)

\* hash(ref) of a frozen pydantic model: the hash of the tuple of its field
\* values, here that tuple (tuples of different values are taken to have
\* different hashes)
ScriptureReference__hash__(self) == << self.start_verse, self.end_verse >>

\* set(chapters), from element i on: an element joins the set unless the set
\* holds an element of the same hash that equals it
RECURSIVE SetOf(_, _, _)
SetOf(list, i, s) ==
    IF i > Len(list) THEN s
    ELSE SetOf(list, i + 1,
             IF \E e \in s : /\ ScriptureReference__hash__(e) = ScriptureReference__hash__(list[i])
                             /\ ScriptureReference__eq__(e, list[i])
             THEN s ELSE s \cup {list[i]})

\* list(s): the elements of the set in one of their orders
RECURSIVE ListsOf(_)
ListsOf(s) ==
    IF s = {} THEN {<< >>}
    ELSE UNION {{<< e >> \o q : q \in ListsOf(s \ {e})} : e \in s}

\* cfm_curriculum.internal_scriptural_references or []
OrEmpty(references) == IF references.status = "ok" THEN references.value ELSE << >>

\* download_text() as get_scriptures() calls it, when a request would return
\* the text fetched
Downloaded(fetched) == download_text(download_text_cache, fetched)

\* get_scriptures(): the index, or the exception of the load
Loaded(fetched) == get_scriptures(get_scriptures_cache, Downloaded(fetched))

\* the cache of download_text and the count of requests after a call of
\* get_scriptures()
AfterDownload(fetched) ==
    /\ download_text_cache' =
          IF get_scriptures_cache.cached THEN download_text_cache
          ELSE CacheAfter(download_text_cache, Downloaded(fetched))
    /\ requests' =
          IF get_scriptures_cache.cached \/ download_text_cache.cached THEN requests
          ELSE requests + 1

\* the load failed: the exception goes to the caller, no index is cached
LoadFailed(loaded) ==
    /\ out' = Raised(loaded.status)
    /\ UNCHANGED get_scriptures_cache

\* the call ran on the cached index and left it as outcome.scriptures
Ran(outcome) ==
    /\ out' = outcome.out
    /\ get_scriptures_cache' = Cached(outcome.scriptures)

\* r.get_scripture_text() for some r, with loaded the outcome of its call of
\* get_scriptures()
GetScriptureTextOn(loaded) ==
    \E r \in CallRefs :
        /\ ref' = r
        /\ IF loaded.status # "ok" THEN LoadFailed(loaded)
           ELSE Ran(get_scripture_text(r, loaded.value))

\* r.get_scripture_text()
GetScriptureText ==
    /\ pc = "catalog"
    /\ calls < MaxCalls
    /\ \E fetched \in Fetched :
          /\ AfterDownload(fetched)
          /\ GetScriptureTextOn(Loaded(fetched))
    /\ pc' = "got_text"
    /\ calls' = calls + 1
    /\ UNCHANGED texts
    /\ UNCHANGED parser_vars
    /\ UNCHANGED pipeline_vars
    /\ UNCHANGED frame

\* r.split_chapters() for some r that spans chapters, with loaded the outcome
\* of its call of get_scriptures()
SplitChaptersOn(loaded) ==
    \E r \in {c \in CallRefs : ~SingleChapter(c)} :
        /\ ref' = r
        /\ IF loaded.status # "ok" THEN LoadFailed(loaded)
           ELSE Ran(Outcome(Returned(split_chapters(r, loaded.value)), loaded.value))

\* r.split_chapters(): get_scriptures() is called when r spans chapters
SplitChapters ==
    /\ pc = "catalog"
    /\ calls < MaxCalls
    /\ \/ \E r \in {c \in CallRefs : SingleChapter(c)} :
             /\ ref' = r
             /\ out' = Returned(split_chapters(r, << >>))
             /\ UNCHANGED << download_text_cache, get_scriptures_cache, requests >>
       \/ \E fetched \in Fetched :
             /\ AfterDownload(fetched)
             /\ SplitChaptersOn(Loaded(fetched))
    /\ pc' = "split"
    /\ calls' = calls + 1
    /\ UNCHANGED texts
    /\ UNCHANGED parser_vars
    /\ UNCHANGED pipeline_vars
    /\ UNCHANGED frame

\* the loop of generate_scripture_insights over the chapters, from chapter i
\* on: the texts so far, until a call raises or the assert on the text fails
RECURSIVE TextsFrom(_, _, _, _)
TextsStep(chapters, i, acc, outcome) ==
    IF outcome.out.status # "ok" THEN outcome
    ELSE IF outcome.out.value = << >>
    THEN Outcome(Raised("AssertionError"), outcome.scriptures)
    ELSE TextsFrom(chapters, i + 1, outcome.scriptures, Append(acc, outcome.out.value))

TextsFrom(chapters, i, scriptures, acc) ==
    IF i > Len(chapters) THEN Outcome(Returned(acc), scriptures)
    ELSE TextsStep(chapters, i, acc, get_scripture_text(chapters[i], scriptures))

\* the loop ended with outcome
TextsDone(outcome) ==
    /\ texts' = outcome.out
    /\ get_scriptures_cache' = Cached(outcome.scriptures)

\* the loop, with loaded the outcome of get_scriptures() in its first call
ChapterTextsOn(loaded) ==
    IF loaded.status # "ok"
    THEN texts' = Raised(loaded.status) /\ UNCHANGED get_scriptures_cache
    ELSE TextsDone(TextsFrom(out.value, 1, loaded.value, << >>))

\* for chapter in chapters: scripture_text = chapter.get_scripture_text()
ChapterTexts ==
    /\ pc = "split"
    /\ out.status = "ok"
    /\ \E fetched \in Fetched :
          /\ AfterDownload(fetched)
          /\ ChapterTextsOn(Loaded(fetched))
    /\ pc' = "texts"
    /\ UNCHANGED << ref, calls, out >>
    /\ UNCHANGED parser_vars
    /\ UNCHANGED pipeline_vars
    /\ UNCHANGED frame

\* the caller drops the result and is ready for its next call
Continue ==
    /\ pc \in {"got_text", "split", "texts"}
    /\ pc' = "catalog"
    /\ ref' = NoRef /\ out' = NoOut /\ texts' = NoOut
    /\ UNCHANGED << download_text_cache, get_scriptures_cache, requests, calls >>
    /\ UNCHANGED parser_vars
    /\ UNCHANGED pipeline_vars
    /\ UNCHANGED frame

\* get_scriptures() called by itself: the index or the exception is what the
\* caller gets, lru_cache keeps a returned index
GetScripturesOn(loaded) ==
    /\ out' = loaded
    /\ get_scriptures_cache' = CacheAfter(get_scriptures_cache, loaded)

GetScriptures ==
    /\ pc = "load"
    /\ calls < MaxCalls
    /\ \E fetched \in Fetched :
          /\ AfterDownload(fetched)
          /\ GetScripturesOn(Loaded(fetched))
    /\ calls' = calls + 1
    /\ UNCHANGED << pc, ref, texts >>
    /\ UNCHANGED parser_vars
    /\ UNCHANGED pipeline_vars
    /\ UNCHANGED frame

\* ComeFollowMeCurriculum.parse_from_text on a page with a title, a heading
\* and a body: the references of the scripture-ref anchors
ParseFromText ==
    /\ pc = "page"
    /\ internal_scriptural_references' = InternalReferences(anchors, 1, << >>)
    /\ pc' = "curriculum"
    /\ UNCHANGED << anchors, lesson_chapters, frame >>
    /\ UNCHANGED << ref, form, text, result, text2, va, vb, cmp >>
    /\ UNCHANGED catalog_vars

\* generate_scripture_insights after its try block ended with tried: the
\* chapters, the fallback of except ScriptureReferenceError, or the exception
GenerateFrom(tried) ==
    IF tried.status = "ok" THEN lesson_chapters' = tried
    ELSE IF IsInstance(tried.status, "ScriptureReferenceError")
    THEN \E q \in ListsOf(SetOf(FallbackChapters(OrEmpty(internal_scriptural_references), 1,
                                                 get_scriptures_cache.value), 1, {})) :
             lesson_chapters' = Returned(q)
    ELSE lesson_chapters' = Raised(tried.status)

\* generate_scripture_insights(cfm_curriculum), up to the list of chapters,
\* in a process whose index is memoized: text is the lesson reference
GenerateScriptureInsights ==
    /\ pc = "curriculum"
    /\ GenerateFrom(TryChapters(scripture_refs(text), 1, get_scriptures_cache.value, << >>))
    /\ pc' = "chapters"
    /\ UNCHANGED << anchors, internal_scriptural_references, frame >>
    /\ UNCHANGED << ref, form, text, result, text2, va, vb, cmp >>
    /\ UNCHANGED catalog_vars

(* -------------------------- the loops, by step ------------------------- *)

\* the index the running call works on: the value get_scriptures() returned
Scriptures == get_scriptures_cache.value

\* changed: continue leaves the iterator where it is
SkipItem_again(i) == i

\* continue: the loop goes on with the next item of the dict
SkipItem(i) == i + 1

\* the locals of split_chapters before its for loop
SplitFrame(self) ==
    [NoFrame EXCEPT !.fn = "split_chapters", !.i = 1,
                    !.current_chapter = self.start_verse.chapter,
                    !.acc = << FirstChapter(self) >>]

\* the locals of get_scripture_text before its for loop
WalkFrame(self, ending_verse) ==
    [NoFrame EXCEPT !.fn = "get_scripture_text", !.i = 1,
                    !.starting_verse = StartingVerse(self),
                    !.ending_verse = ending_verse]

\* ref.split_chapters() up to its for loop
EnterSplitChapters ==
    /\ pc = "call"
    /\ \/ /\ SingleChapter(ref)
          /\ out' = Returned(<< ref >>)
          /\ frame' = [NoFrame EXCEPT !.fn = "split_chapters"]
          /\ pc' = "returned"
       \/ /\ ~SingleChapter(ref)
          /\ frame' = SplitFrame(ref)
          /\ pc' = "for_book"
          /\ UNCHANGED out
    /\ UNCHANGED << ref, download_text_cache, get_scriptures_cache, requests, calls, texts >>
    /\ UNCHANGED parser_vars
    /\ UNCHANGED pipeline_vars

\* one iteration of for book, chapters in scriptures.items() up to the while
\* loop, or the return when the items are exhausted
ForBook ==
    /\ pc = "for_book"
    /\ IF frame.i > Len(Scriptures)
       THEN /\ out' = Returned(frame.acc)
            /\ pc' = "returned"
            /\ UNCHANGED frame
       ELSE IF \/ book_order(Scriptures[frame.i].key) < book_order(ref.start_verse.book)
               \/ /\ frame.started
                  /\ book_order(Scriptures[frame.i].key) > book_order(ref.end_verse.book)
       THEN /\ frame' = [frame EXCEPT !.i = SkipItem(@)]
            /\ UNCHANGED << pc, out >>
       ELSE IF Scriptures[frame.i].key = ref.start_verse.book /\ ~frame.started
       THEN /\ frame' = [frame EXCEPT !.current_chapter = ref.start_verse.chapter + 1,
                                      !.started = TRUE]
            /\ pc' = "while_chapter"
            /\ UNCHANGED out
       ELSE /\ frame' = [frame EXCEPT !.current_chapter = 1]
            /\ pc' = "while_chapter"
            /\ UNCHANGED out
    /\ UNCHANGED << ref, download_text_cache, get_scriptures_cache, requests, calls, texts >>
    /\ UNCHANGED parser_vars
    /\ UNCHANGED pipeline_vars

\* one test of while current_chapter <= len(chapters) and the body it runs
WhileChapter ==
    /\ pc = "while_chapter"
    /\ IF frame.current_chapter > Len(Scriptures[frame.i].value)
       THEN /\ frame' = [frame EXCEPT !.i = @ + 1]
            /\ pc' = "for_book"
       ELSE IF /\ Scriptures[frame.i].key = ref.end_verse.book
               /\ frame.current_chapter = ref.end_verse.chapter
       THEN /\ frame' = [frame EXCEPT
                            !.acc = Append(@, LastChapter(ref, Scriptures[frame.i].key,
                                                          frame.current_chapter)),
                            !.i = @ + 1]
            /\ pc' = "for_book"
       ELSE /\ frame' = [frame EXCEPT
                            !.acc = Append(@, FullChapter(Scriptures[frame.i].key,
                                                          frame.current_chapter)),
                            !.current_chapter = @ + 1]
            /\ UNCHANGED pc
    /\ UNCHANGED << ref, download_text_cache, get_scriptures_cache, requests, calls, out, texts >>
    /\ UNCHANGED parser_vars
    /\ UNCHANGED pipeline_vars

\* ref.get_scripture_text() up to its for loop: the reference without end
\* verse returns at once, the end chapter without verses raises
EnterGetScriptureText ==
    /\ pc = "call"
    /\ IF ref.end_verse = NoVerse
       THEN /\ Ran(get_scripture_text(ref, Scriptures))
            /\ frame' = [NoFrame EXCEPT !.fn = "get_scripture_text"]
            /\ pc' = "returned"
       ELSE IF ref.end_verse.verse # None
       THEN /\ frame' = WalkFrame(ref, ref.end_verse)
            /\ pc' = "walk_book"
            /\ UNCHANGED << out, get_scriptures_cache >>
       ELSE IF ChapterVerses(Scriptures, ref.end_verse.book, ref.end_verse.chapter) = << >>
       THEN /\ Ran(Outcome(Raised("IndexError"),
                           LookupChapter(Scriptures, ref.end_verse.book,
                                         ref.end_verse.chapter)))
            /\ frame' = [NoFrame EXCEPT !.fn = "get_scripture_text"]
            /\ pc' = "raised"
       ELSE /\ frame' = WalkFrame(ref, LastKey(ChapterVerses(Scriptures, ref.end_verse.book,
                                                             ref.end_verse.chapter)))
            /\ pc' = "walk_book"
            /\ UNCHANGED << out, get_scriptures_cache >>
    /\ UNCHANGED << ref, download_text_cache, requests, calls, texts >>
    /\ UNCHANGED parser_vars
    /\ UNCHANGED pipeline_vars

\* return "\n".join(verse_texts)
ReturnText ==
    /\ out' = Returned(Join(frame.acc))
    /\ pc' = "returned"
    /\ UNCHANGED frame

\* one iteration of for book, chapters in scriptures.items() up to the loop
\* over the chapters, or the return when the items are exhausted
WalkBook ==
    /\ pc = "walk_book"
    /\ IF frame.i > Len(Scriptures)
       THEN ReturnText
       ELSE IF book_order(Scriptures[frame.i].key) < book_order(frame.starting_verse.book)
       THEN /\ frame' = [frame EXCEPT !.i = SkipItem(@)]
            /\ UNCHANGED << pc, out >>
       ELSE /\ frame' = [frame EXCEPT !.j = 1]
            /\ pc' = "walk_chapter"
            /\ UNCHANGED out
    /\ UNCHANGED << ref, download_text_cache, get_scriptures_cache, requests, calls, texts >>
    /\ UNCHANGED parser_vars
    /\ UNCHANGED pipeline_vars

\* one iteration of for chapter, verses in chapters.items() up to the loop
\* over the verses; when the items are exhausted, the test of found_end
\* after the loop
WalkChapter ==
    /\ pc = "walk_chapter"
    /\ IF frame.j > Len(Scriptures[frame.i].value)
       THEN IF frame.found_end
            THEN ReturnText
            ELSE /\ frame' = [frame EXCEPT !.i = @ + 1]
                 /\ pc' = "walk_book"
                 /\ UNCHANGED out
       ELSE IF /\ Scriptures[frame.i].key = frame.starting_verse.book
               /\ Scriptures[frame.i].value[frame.j].key < frame.starting_verse.chapter
       THEN /\ frame' = [frame EXCEPT !.j = SkipItem(@)]
            /\ UNCHANGED << pc, out >>
       ELSE /\ frame' = [frame EXCEPT !.k = 1]
            /\ pc' = "walk_verse"
            /\ UNCHANGED out
    /\ UNCHANGED << ref, download_text_cache, get_scriptures_cache, requests, calls, texts >>
    /\ UNCHANGED parser_vars
    /\ UNCHANGED pipeline_vars

\* the verses of the chapter the walk is in
WalkVerses == Scriptures[frame.i].value[frame.j].value

\* one iteration of for verse, text in verses.items(); when the loop ends,
\* by exhaustion or by break, the test of found_end after it, which breaks
\* out of the two outer loops as well
WalkVerse ==
    /\ pc = "walk_verse"
    /\ IF frame.k > Len(WalkVerses)
       THEN IF frame.found_end
            THEN ReturnText
            ELSE /\ frame' = [frame EXCEPT !.j = @ + 1]
                 /\ pc' = "walk_chapter"
                 /\ UNCHANGED out
       ELSE IF ~frame.started /\ WalkVerses[frame.k].key # frame.starting_verse
       THEN /\ frame' = [frame EXCEPT !.k = SkipItem(@)]
            /\ UNCHANGED << pc, out >>
       ELSE IF frame.found_end
       THEN ReturnText
       ELSE /\ frame' = [frame EXCEPT
                            !.started = TRUE,
                            !.acc = Append(@, VerseLine(WalkVerses[frame.k].key,
                                                        WalkVerses[frame.k].value)),
                            !.found_end = (WalkVerses[frame.k].key = frame.ending_verse),
                            !.k = @ + 1]
            /\ UNCHANGED << pc, out >>
    /\ UNCHANGED << ref, download_text_cache, get_scriptures_cache, requests, calls, texts >>
    /\ UNCHANGED parser_vars
    /\ UNCHANGED pipeline_vars

(* --------------------------- specifications ---------------------------- *)

\* the round trip of the tests: a reference, its string, the string parsed,
\* the parsed reference rendered again
InitRoundTrip ==
    /\ pc = "ref"
    /\ ref \in Refs
    /\ form = NoForm /\ text = << >> /\ result = NoResult /\ text2 = << >>
    /\ va = NoVerse /\ vb = NoVerse /\ cmp = NoCmp
    /\ NoCatalog
    /\ NoPipeline
    /\ frame = NoFrame

NextRoundTrip == Str \/ FromString \/ StrParsed

SpecRoundTrip == InitRoundTrip /\ [][NextRoundTrip]_vars

\* the parser on written inputs
InitParse ==
    /\ pc = "text"
    /\ form \in ParseForms \cup NoMatchForms
    /\ text = InputText(form)
    /\ ref = NoRef /\ result = NoResult /\ text2 = << >>
    /\ va = NoVerse /\ vb = NoVerse /\ cmp = NoCmp
    /\ NoCatalog
    /\ NoPipeline
    /\ frame = NoFrame

NextParse == FromString \/ StrParsed

SpecParse == InitParse /\ [][NextParse]_vars

\* the comparisons of two verses and of the references built from them
InitCompare ==
    /\ pc = "verses"
    /\ va \in Verses
    /\ vb \in Verses
    /\ ref = NoRef /\ form = NoForm /\ text = << >> /\ result = NoResult
    /\ text2 = << >> /\ cmp = NoCmp
    /\ NoCatalog
    /\ NoPipeline
    /\ frame = NoFrame

NextCompare == CompareVerses \/ CompareReferences

SpecCompare == InitCompare /\ [][NextCompare]_vars

\* the lesson pipeline parsing the reference of a lesson
InitCaller ==
    /\ pc = "text"
    /\ form \in CallerForms \cup NoMatchForms
    /\ text = InputText(form)
    /\ ref = NoRef /\ result = NoResult /\ text2 = << >>
    /\ va = NoVerse /\ vb = NoVerse /\ cmp = NoCmp
    /\ NoCatalog
    /\ NoPipeline
    /\ frame = NoFrame

NextCaller == FromString \/ ExceptScriptureReferenceError

SpecCaller == InitCaller /\ [][NextCaller]_vars

\* a process calling the catalog: nothing is loaded before the first call
InitCatalog ==
    /\ pc = "catalog"
    /\ ref = NoRef /\ form = NoForm /\ text = << >> /\ result = NoResult
    /\ text2 = << >> /\ va = NoVerse /\ vb = NoVerse /\ cmp = NoCmp
    /\ NoCatalog
    /\ NoPipeline
    /\ frame = NoFrame

NextCatalog == GetScriptureText \/ SplitChapters \/ ChapterTexts \/ Continue

SpecCatalog == InitCatalog /\ [][NextCatalog]_vars

\* a process whose download_text() has returned a text with the expected
\* hash and which then asks for the index
InitLoad ==
    /\ pc = "load"
    /\ download_text_cache \in {Cached(t) : t \in LoadTexts}
    /\ get_scriptures_cache = NoCache
    /\ requests = 1 /\ calls = 0 /\ out = NoOut /\ texts = NoOut
    /\ ref = NoRef /\ form = NoForm /\ text = << >> /\ result = NoResult
    /\ text2 = << >> /\ va = NoVerse /\ vb = NoVerse /\ cmp = NoCmp
    /\ NoPipeline
    /\ frame = NoFrame

NextLoad == GetScriptures

SpecLoad == InitLoad /\ [][NextLoad]_vars

\* the lesson pipeline on one page, in a process whose catalog is loaded
InitPipeline ==
    /\ pc = "page"
    /\ download_text_cache = Cached(lds_scriptures)
    /\ get_scriptures_cache = Cached(build_index(lds_scriptures).value)
    /\ anchors \in AnchorLists
    /\ text \in LessonReferences
    /\ internal_scriptural_references = NoOut /\ lesson_chapters = NoOut
    /\ frame = NoFrame
    /\ requests = 1 /\ calls = 0 /\ out = NoOut /\ texts = NoOut
    /\ ref = NoRef /\ form = NoForm /\ result = NoResult
    /\ text2 = << >> /\ va = NoVerse /\ vb = NoVerse /\ cmp = NoCmp

NextPipeline == ParseFromText \/ GenerateScriptureInsights

SpecPipeline == InitPipeline /\ [][NextPipeline]_vars

\* one call of split_chapters or of get_scripture_text, run step by step on
\* a loaded index
InitLoops ==
    /\ pc = "call"
    /\ download_text_cache = Cached(lds_scriptures)
    /\ get_scriptures_cache \in {Cached(s) : s \in LoopIndexes}
    /\ ref \in LoopRefs
    /\ frame = NoFrame
    /\ requests = 1 /\ calls = 0 /\ out = NoOut /\ texts = NoOut
    /\ form = NoForm /\ text = << >> /\ result = NoResult
    /\ text2 = << >> /\ va = NoVerse /\ vb = NoVerse /\ cmp = NoCmp
    /\ NoPipeline

NextLoops ==
    \/ EnterSplitChapters \/ ForBook \/ WhileChapter
    \/ EnterGetScriptureText \/ WalkBook \/ WalkChapter \/ WalkVerse

\* the interpreter runs the call on: a step that can be taken is taken
SpecLoops == InitLoops /\ [][NextLoops]_vars /\ WF_vars(NextLoops)

Init ==
    \/ InitRoundTrip \/ InitParse \/ InitCompare \/ InitCaller \/ InitCatalog
    \/ InitLoad \/ InitPipeline \/ InitLoops

Next ==
    \/ NextRoundTrip \/ NextParse \/ NextCompare \/ NextCaller \/ NextCatalog
    \/ NextLoad \/ NextPipeline \/ NextLoops

Spec == Init /\ [][Next]_vars

(* ------------------------------ properties ----------------------------- *)

SameBook(r) == r.end_verse = NoVerse \/ r.end_verse.book = r.start_verse.book

Parsed == pc \in {"parsed", "done"}

\* new == r and r == new, for the reference from_string returned
ParsedEquals(r) ==
    /\ result.status = "ok"
    /\ ScriptureReference__eq__(result.value, r)
    /\ ScriptureReference__eq__(r, result.value)

\* C1: round trip within one book.  For every reference whose end verse is
\* absent or in the book of its start verse (end before start included),
\* from_string(str(r)) returns a reference equal to r, and rendering that
\* reference gives str(r) again.
C1_RoundTripSameBook ==
    SameBook(ref) =>
        /\ Parsed => ParsedEquals(ref)
        /\ pc = "done" => text2 = text

\* a reference in one chapter with no start verse number and an end verse
\* number has made the round trip
C1_Witness ==
    /\ pc = "done"
    /\ ref.end_verse # NoVerse
    /\ ref.end_verse.book = ref.start_verse.book
    /\ ref.end_verse.chapter = ref.start_verse.chapter
    /\ ref.start_verse.verse = None
    /\ ref.end_verse.verse # None
    /\ text2 = text

\* C2: round trip across books.  For every reference whose end verse is in
\* another book, str(r) is the start verse, "-", and the end verse written
\* with its book name, chapter and (when present) verse; from_string(str(r))
\* returns a reference equal to r, and rendering it gives str(r) again.
C2_RoundTripAcrossBooks ==
    ~SameBook(ref) =>
        /\ pc # "ref" =>
              text = Verse__str__(ref.start_verse) \o << HYPHEN >>
                     \o Book_value[ref.end_verse.book] \o << " " >>
                     \o IntToStr(ref.end_verse.chapter)
                     \o (IF ref.end_verse.verse = None THEN << >>
                         ELSE << COLON >> \o IntToStr(ref.end_verse.verse))
        /\ Parsed => ParsedEquals(ref)
        /\ pc = "done" => text2 = text

\* a reference from a verse of one book to a whole chapter of another book,
\* a chapter that differs from the start chapter, has made the round trip
C2_Witness ==
    /\ pc = "done"
    /\ ref.end_verse # NoVerse
    /\ ref.end_verse.book # ref.start_verse.book
    /\ ref.start_verse.verse # None
    /\ ref.end_verse.verse = None
    /\ ref.end_verse.chapter # ref.start_verse.chapter
    /\ text2 = text

\* (c1, v1) < (c2, v2) in the lexicographic order
LexLess(c1, v1, c2, v2) == c1 < c2 \/ (c1 = c2 /\ v1 < v2)

Numbered == {v \in Verses : v.verse # None}

\* C3: verse ordering law.  For two verses of one book with verse numbers,
\* a < b is true exactly when (chapter, verse) of a precedes that of b
\* lexicographically; so < is irreflexive, of two unequal verses exactly one is
\* less than the other, and < is transitive.
C3_VerseOrdering ==
    (pc \in {"compared", "equated"} /\ va.book = vb.book
        /\ va.verse # None /\ vb.verse # None) =>
        /\ cmp.lt = BoolStr(LexLess(va.chapter, va.verse, vb.chapter, vb.verse))
        /\ va = vb => cmp.lt = "False"
        /\ va # vb => (cmp.lt = "True") # (LessThan(vb, va) = "True")
        /\ \A vc \in {v \in Numbered : v.book = vb.book} :
              (cmp.lt = "True" /\ LessThan(vb, vc) = "True") => LessThan(va, vc) = "True"

\* two verses of one book were compared where the earlier chapter has the
\* larger verse number
C3_Witness ==
    /\ pc = "compared"
    /\ va.book = vb.book
    /\ va.verse # None /\ vb.verse # None
    /\ va.chapter < vb.chapter
    /\ va.verse > vb.verse
    /\ cmp.lt = "True"

\* C4: single-verse-end law.  For every verse v, with or without a verse
\* number, ScriptureReference(v, v) == ScriptureReference(v, None), and the
\* same with the two sides of == exchanged.
C4_SingleVerseEnd ==
    (pc = "equated" /\ va = vb) => (cmp.eq = "True" /\ cmp.eq_rev = "True")

\* a reference from a whole chapter to itself was compared with the
\* reference to that chapter
C4_Witness ==
    /\ pc = "equated"
    /\ va = vb
    /\ va.verse = None
    /\ cmp.eq = "True"

\* the reference a written form stands for, by the rules of the grammar
FormStart == Verse(form.book, form.c, form.v)

HasRange == form.kind = "ref" /\ form.range.dash # "none"

\* C5: single-colon rule.  For an input "book c:v DASH n" (one colon, no
\* book name in the range clause, no colon after n), from_string returns the
\* start verse (book, c, v) and the end verse (book, c, n): n is the end verse
\* of the start chapter.
C5_SingleColon ==
    (Parsed /\ HasRange /\ form.v # None
        /\ form.range.book2 = "None" /\ form.range.m = None) =>
        /\ result.status = "ok"
        /\ result.value.start_verse = FormStart
        /\ result.value.end_verse = Verse(form.book, form.c, form.range.n)

\* "book c:v DASH n" with n another number than c was parsed
C5_Witness ==
    /\ pc = "parsed"
    /\ HasRange /\ form.v # None
    /\ form.range.book2 = "None" /\ form.range.m = None
    /\ form.range.n # form.c
    /\ result.value.end_verse = Verse(form.book, form.c, form.range.n)

\* C6: two-number range rule.  For an input whose range clause is
\* "DASH c2:v2", with or without a verse on the start side, from_string returns
\* the end verse (start book, c2, v2).
C6_TwoNumberRange ==
    (Parsed /\ HasRange /\ form.range.book2 = "None" /\ form.range.m # None) =>
        /\ result.status = "ok"
        /\ result.value.start_verse = FormStart
        /\ result.value.end_verse = Verse(form.book, form.range.n, form.range.m)

\* "book c DASH c2:v2", no verse on the start side, was parsed
C6_Witness ==
    /\ pc = "parsed"
    /\ HasRange /\ form.range.book2 = "None" /\ form.range.m # None
    /\ form.v = None
    /\ form.range.n # form.range.m
    /\ result.value.end_verse = Verse(form.book, form.range.n, form.range.m)

\* C7: end-chapter-only rule.  When the range clause gives a bare number n
\* with no colon after it and either the input has no colon at all
\* ("book c DASH n") or the clause names a book ("book c[:v] DASH book2 n"),
\* from_string returns an end verse with chapter n and no verse number.
C7_EndChapterOnly ==
    (Parsed /\ HasRange /\ form.range.m = None
        /\ (form.v = None \/ form.range.book2 # "None")) =>
        /\ result.status = "ok"
        /\ result.value.end_verse.chapter = form.range.n
        /\ result.value.end_verse.verse = None

\* "book c:v DASH book2 n" was parsed
C7_Witness ==
    /\ pc = "parsed"
    /\ HasRange /\ form.range.m = None
    /\ form.v # None /\ form.range.book2 # "None"
    /\ form.range.n # form.c
    /\ result.value.end_verse.chapter = form.range.n
    /\ result.value.end_verse.verse = None

\* C8: end book rule.  In every successful parse of a range, the book of the
\* end verse is the book the range clause names when it names one, and the
\* book of the start verse otherwise.
C8_EndBook ==
    (Parsed /\ HasRange /\ result.status = "ok") =>
        /\ result.value.start_verse.book = form.book
        /\ result.value.end_verse.book =
              IF form.range.book2 # "None" THEN form.range.book2 ELSE form.book

\* a range from 3 Nephi that names 4 Nephi was parsed
C8_Witness ==
    /\ pc = "parsed"
    /\ HasRange
    /\ form.book = "NEPHI3"
    /\ form.range.book2 = "NEPHI4"
    /\ result.status = "ok"
    /\ result.value.end_verse.book = "NEPHI4"

DashBooks == {"JOSEPH_SMITH_HISTORY", "JOSEPH_SMITH_MATTHEW"}

\* every "Joseph Smith" in s is followed by the em dash
EmDashNames(s) ==
    \A i \in 1..Len(s) :
        HasAt(s, i, JosephSmith) => HasAt(s, i, JosephSmith \o << EM_DASH >>)

\* C9: dash-normalization law.  Whatever dash variant an input writes in
\* "Joseph Smith<dash>History" or "Joseph Smith<dash>Matthew", as the start
\* book or as the book of the range clause, from_string yields the Book whose
\* name has the em dash, and the rendered reference contains that name and
\* writes no Joseph Smith name with another dash.
C9_DashNormalization ==
    /\ (Parsed /\ form.kind = "ref" /\ form.book \in DashBooks) =>
          /\ result.status = "ok"
          /\ result.value.start_verse.book = form.book
          /\ pc = "done" => (HasAt(text2, 1, Book_value[form.book]) /\ EmDashNames(text2))
    /\ (Parsed /\ HasRange /\ form.range.book2 \in DashBooks) =>
          /\ result.status = "ok"
          /\ result.value.end_verse.book = form.range.book2
          /\ pc = "done" => (Contains(text2, Book_value[form.range.book2])
                              /\ EmDashNames(text2))

\* an input that writes an en dash in the name of its start book and in the
\* name of the book of its range clause was parsed and rendered
C9_Witness ==
    /\ pc = "done"
    /\ HasRange
    /\ form.jsdash = EN_DASH
    /\ form.book = "JOSEPH_SMITH_MATTHEW"
    /\ form.range.book2 = "JOSEPH_SMITH_HISTORY"
    /\ HasAt(text2, 1, Book_value["JOSEPH_SMITH_MATTHEW"])
    /\ Contains(text2, Book_value["JOSEPH_SMITH_HISTORY"])

\* C10: an input that does not match the grammar at all (a character no book
\* name starts with, a book name with no chapter number, a number with no book
\* name) makes from_string fail with ScriptureReferenceError, a subclass of
\* ValueError, and no reference is returned.
C10_NoMatchRaises ==
    (form.kind \in {"lead", "nochapter", "nobook"}) =>
        /\ pc # "done"
        /\ pc = "parsed" =>
              /\ result.status = "ScriptureReferenceError"
              /\ ExceptionBase[result.status] = "ValueError"
              /\ result.value = NoRef

\* a reference written after a colon, a hyphen or a parenthesis was refused
C10_Witness ==
    /\ pc = "parsed"
    /\ form.kind = "lead"
    /\ result.status = "ScriptureReferenceError"

\* the input names a book that is no member of Book, and matches the grammar
UnknownBookInput ==
    /\ form.kind = "ref"
    /\ form.book \in UnknownBooks \/ form.range.book2 \in UnknownBooks
    /\ SCRIPTUREVERSE_REGEX_match(text).matched

\* C11: an input that matches the grammar and names, as start book or in the
\* range clause, a book that is no member of Book makes from_string fail with
\* ScriptureReferenceError, as an unmatched input does, so the handler of
\* generate_scripture_insights, which catches only ScriptureReferenceError,
\* takes it and no exception leaves the caller.
C11_UnknownBookIsSyntaxError ==
    UnknownBookInput =>
        /\ pc = "parsed" => result.status = "ScriptureReferenceError"
        /\ pc # "propagated"

(* ------------------------- catalog properties -------------------------- *)

\* the verse is in the file: its chapter has that verse number, or, without
\* a verse number, its chapter has verses
InFile(v) ==
    IF v.verse = None THEN FileVerseCount(v.book, v.chapter) >= 1
    ELSE v.verse <= FileVerseCount(v.book, v.chapter)

\* the verses of the file, in the order of the file
RECURSIVE FileVerseSeq(_, _, _)
FileVerseSeq(b, c, v) ==
    IF c > FileChapterCount(b) THEN << >>
    ELSE IF v > FileVerseCount(b, c) THEN FileVerseSeq(b, c + 1, 1)
    ELSE << Verse(b, c, v) >> \o FileVerseSeq(b, c, v + 1)

RECURSIVE FileVerseList(_)
FileVerseList(i) ==
    IF i > Len(FileBooks) THEN << >>
    ELSE FileVerseSeq(FileBooks[i].book, 1, 1) \o FileVerseList(i + 1)

FileVerseAll == FileVerseList(1)

PositionInFile(v) == CHOOSE i \in DOMAIN FileVerseAll : FileVerseAll[i] = v

\* the first and the last verse a range stands for
ResolvedStart(r) ==
    IF r.start_verse.verse = None
    THEN Verse(r.start_verse.book, r.start_verse.chapter, 1) ELSE r.start_verse

ResolvedEnd(r) ==
    IF r.end_verse.verse = None
    THEN Verse(r.end_verse.book, r.end_verse.chapter,
               FileVerseCount(r.end_verse.book, r.end_verse.chapter))
    ELSE r.end_verse

\* one line for each verse of the file from position i to position j
FileLines(i, j) ==
    [k \in 1..(j - i + 1) |->
        VerseLine(FileVerseAll[i + k - 1],
                  FileVerseText(FileVerseAll[i + k - 1].book, FileVerseAll[i + k - 1].chapter,
                                FileVerseAll[i + k - 1].verse))]

\* the reference addresses a book, chapter or verse the file does not have
AddressesAbsent(r) ==
    \/ ~InFile(r.start_verse)
    \/ r.end_verse # NoVerse /\ ~InFile(r.end_verse)

\* the exceptions of Python for a key or a position that is not there
NotFoundErrors == {"KeyError", "IndexError", "LookupError"}

\* C12: get_scripture_text on a reference that addresses a book, chapter or
\* verse absent from the catalog (as single verse, whole chapter, range start
\* or range end) fails with a not-found error; it returns no text at all: no
\* empty text, no line with a missing text, no partial result.
C12_AbsentIsNotFound ==
    (pc = "got_text" /\ get_scriptures_cache.cached /\ AddressesAbsent(ref)) =>
        out.status \in NotFoundErrors

\* the reference spans chapters and its start and end are in the file
SplitsInFile(r) ==
    /\ ~SingleChapter(r)
    /\ InFile(r.start_verse) /\ InFile(r.end_verse)
    /\ NotAfter(r.start_verse, r.end_verse)

\* C13: chapter-split coverage law.  For a reference that spans chapters,
\* with start and end in the catalog and the start before the end, the texts
\* of the elements of split_chapters(), joined in order, are the text of
\* get_scripture_text() of the reference: the same verses in the same order.
C13_SplitCoverage ==
    (pc = "texts" /\ get_scriptures_cache.cached /\ SplitsInFile(ref)) =>
        /\ texts.status = "ok"
        /\ get_scripture_text(ref, get_scriptures_cache.value).out.status = "ok"
        /\ Join(texts.value) = get_scripture_text(ref, get_scriptures_cache.value).out.value

\* the reference runs from one chapter to a later chapter of one book, and
\* the file has both chapters
ChaptersOfOneBook(r) ==
    /\ r.end_verse # NoVerse
    /\ r.start_verse.book = r.end_verse.book
    /\ r.start_verse.chapter < r.end_verse.chapter
    /\ r.end_verse.chapter <= FileChapterCount(r.end_verse.book)

\* C14: for a reference within one book from chapter c1 to chapter c2 > c1,
\* both in the catalog, split_chapters returns c2 - c1 + 1 references; the
\* i-th starts and ends in chapter c1 + i - 1 of the book; the first runs from
\* the start verse to the end of its chapter, every later one starts at verse
\* 1, every one but the last ends with its whole chapter, and the last ends
\* at the end verse.
C14_SplitWithinBook ==
    (pc = "split" /\ out.status = "ok" /\ ChaptersOfOneBook(ref)) =>
        /\ Len(out.value) = ref.end_verse.chapter - ref.start_verse.chapter + 1
        /\ \A i \in DOMAIN out.value :
              /\ out.value[i].start_verse =
                    IF i = 1 THEN ref.start_verse
                    ELSE Verse(ref.start_verse.book, ref.start_verse.chapter + i - 1, 1)
              /\ out.value[i].end_verse =
                    IF i = Len(out.value) THEN ref.end_verse
                    ELSE Verse(ref.start_verse.book, ref.start_verse.chapter + i - 1, None)

\* a reference from a verse of chapter 1 to a verse of chapter 3 was split
C14_Witness ==
    /\ pc = "split" /\ out.status = "ok"
    /\ ChaptersOfOneBook(ref)
    /\ ref.start_verse.chapter = 1 /\ ref.start_verse.verse = 2
    /\ ref.end_verse.chapter = 3 /\ ref.end_verse.verse = 1
    /\ Len(out.value) = 3

\* the chapters of the file, in the order of the file
RECURSIVE FileChapterSeq(_, _)
FileChapterSeq(i, c) ==
    IF i > Len(FileBooks) THEN << >>
    ELSE IF c > Len(FileBooks[i].chapters) THEN FileChapterSeq(i + 1, 1)
    ELSE << [book |-> FileBooks[i].book, chapter |-> c] >> \o FileChapterSeq(i, c + 1)

\* the chapter x of the file lies after the start chapter of r and before
\* its end chapter
Between(r, x) ==
    /\ \/ x.book = r.start_verse.book /\ x.chapter > r.start_verse.chapter
       \/ book_order(x.book) > book_order(r.start_verse.book)
    /\ \/ x.book = r.end_verse.book /\ x.chapter < r.end_verse.chapter
       \/ book_order(x.book) < book_order(r.end_verse.book)

WholeChapter(x) ==
    [start_verse |-> Verse(x.book, x.chapter, 1), end_verse |-> Verse(x.book, x.chapter, None)]

ChaptersBetween(r) == SelectSeq(FileChapterSeq(1, 1), LAMBDA x : Between(r, x))

\* the reference runs from a book to a later book of the canon and the file
\* has its end chapter
AcrossBooks(r) ==
    /\ r.end_verse # NoVerse
    /\ book_order(r.start_verse.book) < book_order(r.end_verse.book)
    /\ r.end_verse.chapter <= FileChapterCount(r.end_verse.book)

\* C15: for a reference from a book to a later book, with the end chapter in
\* the catalog, split_chapters lists, after the element for the start chapter,
\* one whole-chapter element for every later chapter of the start book, then
\* for chapters 1, 2, ... of each following book in canon order, up to the
\* chapter before the end chapter, and last the element from verse 1 of the
\* end chapter to the end verse: no element lies after the end chapter, in a
\* book after the end book or in a book before the start book.
C15_SplitAcrossBooks ==
    (pc = "split" /\ out.status = "ok" /\ AcrossBooks(ref)) =>
        out.value =
            << [start_verse |-> ref.start_verse,
                end_verse |-> Verse(ref.start_verse.book, ref.start_verse.chapter, None)] >>
            \o [i \in DOMAIN ChaptersBetween(ref) |-> WholeChapter(ChaptersBetween(ref)[i])]
            \o << [start_verse |-> Verse(ref.end_verse.book, ref.end_verse.chapter, 1),
                   end_verse |-> ref.end_verse] >>

\* a reference from a chapter of Jarom to a verse in the third chapter of
\* 3 Nephi was split on an index no earlier call had touched
C15_CleanIndexCase ==
    /\ pc = "split" /\ out.status = "ok" /\ calls = 1
    /\ AcrossBooks(ref)
    /\ ref.start_verse.book = "JAROM" /\ ref.end_verse.book = "NEPHI3"
    /\ ref.end_verse.chapter = 3
    /\ Len(out.value) = 5

\* C16: split_chapters on a reference within one chapter (no end verse, or
\* start and end in one chapter of one book) returns the list of that one
\* reference, and the call neither requests the text nor reads or builds the
\* index.
C16_SingleChapterUnsplit ==
    [][(pc = "catalog" /\ pc' = "split" /\ SingleChapter(ref')) =>
          /\ out' = Returned(<< ref' >>)
          /\ UNCHANGED << download_text_cache, get_scriptures_cache, requests >>]_vars

\* a range within one chapter was split before anything was loaded
C16_Witness ==
    /\ pc = "split"
    /\ ref.end_verse # NoVerse /\ ref.end_verse # ref.start_verse
    /\ SingleChapter(ref)
    /\ out = Returned(<< ref >>)
    /\ ~get_scriptures_cache.cached /\ requests = 0

\* the reference is a range whose first and last verse are in the file, the
\* first not after the last
RangeInFile(r) ==
    /\ r.end_verse # NoVerse
    /\ InFile(ResolvedStart(r))
    /\ InFile(r.end_verse)
    /\ PositionInFile(ResolvedStart(r)) <= PositionInFile(ResolvedEnd(r))

\* C17: for a range whose resolved start (verse 1 of the start chapter when
\* the start has no verse number) and resolved end (the last verse of the end
\* chapter when the end has no verse number) are in the catalog, the start
\* not after the end, get_scripture_text returns one "{verse} {text}" line for
\* each verse of the catalog from the resolved start through the resolved
\* end, in the order of the catalog, and no other line.
C17_RangeText ==
    (pc = "got_text" /\ get_scriptures_cache.cached /\ RangeInFile(ref)) =>
        /\ out.status = "ok"
        /\ out.value = Join(FileLines(PositionInFile(ResolvedStart(ref)),
                                      PositionInFile(ResolvedEnd(ref))))

\* the text of a range from a whole chapter of Jarom to a whole chapter of
\* 3 Nephi was returned by the second call of the process
C17_Witness ==
    /\ pc = "got_text" /\ calls = 2
    /\ RangeInFile(ref)
    /\ ref.start_verse = Verse("JAROM", 1, None)
    /\ ref.end_verse = Verse("NEPHI3", 2, None)
    /\ out.status = "ok"
    /\ Len(out.value) > Len(Verse__str__(ref.start_verse))

\* no present end verse equals the start verse
Normalized(r) == r.end_verse = NoVerse \/ r.end_verse # r.start_verse

\* C18: stored normalization.  Every reference construction produces, by the
\* constructor, by from_string or inside split_chapters, has its end verse
\* absent when the end verse given equals the start verse: no reference holds
\* a present end_verse equal to its start_verse.
C18_StoredNormalization ==
    /\ Normalized(ref)
    /\ result.status = "ok" => Normalized(result.value)
    /\ (pc \in {"split", "texts"} /\ out.status = "ok") =>
          \A i \in DOMAIN out.value : Normalized(out.value[i])

\* C19: the index get_scriptures returned is read-only: no call of
\* get_scripture_text or split_chapters, whatever book, chapter or verse it
\* names, adds, removes or changes an entry of the index.
C19_IndexReadOnly ==
    [][get_scriptures_cache.cached => get_scriptures_cache' = get_scriptures_cache]_vars

\* the step is a call that asks get_scriptures() for the index
ConsultsIndex ==
    \/ pc = "catalog" /\ pc' = "got_text"
    \/ pc = "catalog" /\ pc' = "split" /\ ~SingleChapter(ref')
    \/ pc = "split" /\ pc' = "texts"

\* C20: load integrity.  A text is memoized only when its hash is the
\* expected one and is never replaced; an index is memoized only together
\* with such a text.  A call that needs the index while none is memoized makes
\* a request; when the text of the request has another hash, the call fails
\* with ValueError and neither text nor index is memoized, so the next such
\* call makes a request again.
C20_LoadIntegrity ==
    [][/\ download_text_cache.cached => UNCHANGED download_text_cache
       /\ (download_text_cache'.cached /\ ~download_text_cache.cached) =>
             sha256(download_text_cache'.value) = expected_sha256_hash
       /\ get_scriptures_cache'.cached => download_text_cache'.cached
       /\ (ConsultsIndex /\ ~get_scriptures_cache.cached) =>
             /\ requests' = requests + 1
             /\ \/ get_scriptures_cache'.cached
                \/ /\ ~download_text_cache'.cached
                   /\ (IF pc' = "texts" THEN texts' ELSE out').status = "ValueError"]_vars

\* the first call of a process failed on the hash, the second call made a
\* new request and built the index
C20_Witness ==
    /\ calls = 2 /\ requests = 2
    /\ pc = "got_text"
    /\ get_scriptures_cache.cached
    /\ out.status = "ok"

\* C21: memoization.  Once get_scriptures() has returned an index, every
\* later call returns the memoized index, whatever a request would fetch and
\* without building it from the text again, and no step makes a request or
\* replaces the memoized text: after a success the source is not fetched again.
C21_Memoization ==
    [][get_scriptures_cache.cached =>
          /\ \A fetched \in Fetched : Loaded(fetched) = Returned(get_scriptures_cache.value)
          /\ requests' = requests
          /\ download_text_cache' = download_text_cache
          /\ get_scriptures_cache'.cached]_vars

\* a second call ran on the index the first call loaded with one request
C21_Witness ==
    /\ calls = 2 /\ requests = 1
    /\ pc = "got_text"
    /\ get_scriptures_cache.cached
    /\ out.status = "ok"

(* ------------------------- rendering properties ------------------------ *)

\* the reference has been rendered: text = str(ref)
Rendered == pc = "text" /\ ref # NoRef

\* the end verse of r has a verse number and lies in the chapter of the
\* start verse, and is not the start verse
EndInStartChapter(r) ==
    /\ r.end_verse # NoVerse
    /\ r.end_verse.verse # None
    /\ r.end_verse.book = r.start_verse.book
    /\ r.end_verse.chapter = r.start_verse.chapter
    /\ r.end_verse # r.start_verse

\* C22: rendering, same chapter.  For every reference whose end verse has a
\* verse number and the book and chapter of the start verse, and differs from
\* it, str renders "{start}-{end verse number}" with the end chapter omitted,
\* whether or not the start verse has a verse number.
C22_SameChapterRendering ==
    (Rendered /\ EndInStartChapter(ref)) =>
        text = Verse__str__(ref.start_verse) \o << HYPHEN >> \o IntToStr(ref.end_verse.verse)

\* C22, amended: the end chapter is omitted when the start verse has a verse
\* number; when it has none, str renders "{start}-{end chapter}:{end verse
\* number}", so that the string parses back to the same reference.
C22_SameChapterRenderingAnchored ==
    (Rendered /\ EndInStartChapter(ref)) =>
        text = Verse__str__(ref.start_verse) \o << HYPHEN >>
               \o (IF ref.start_verse.verse # None THEN << >>
                   ELSE IntToStr(ref.end_verse.chapter) \o << COLON >>)
               \o IntToStr(ref.end_verse.verse)

\* a reference from a whole chapter to a verse of that chapter has been
\* rendered with the end chapter after the dash
C22_Witness ==
    /\ Rendered /\ EndInStartChapter(ref)
    /\ ref.start_verse.verse = None
    /\ Contains(text, << HYPHEN >> \o IntToStr(ref.end_verse.chapter) \o << COLON >>)

\* the end verse of r is a whole chapter of the start book, another than the
\* start chapter
EndIsLaterChapter(r) ==
    /\ r.end_verse # NoVerse
    /\ r.end_verse.verse = None
    /\ r.end_verse.book = r.start_verse.book
    /\ r.end_verse.chapter # r.start_verse.chapter

\* C23: rendering, whole end chapter.  For every reference of one book whose
\* end verse has no verse number and another chapter than the start verse, str
\* renders "{start}-{end chapter}", with no colon and no book name after the
\* dash, whether or not the start verse has a verse number.
C23_WholeEndChapterRendering ==
    (Rendered /\ EndIsLaterChapter(ref)) =>
        text = Verse__str__(ref.start_verse) \o << HYPHEN >> \o IntToStr(ref.end_verse.chapter)

\* C23, amended: the end is the chapter number alone when the start verse has
\* no verse number; when it has one, str renders "{start}-{book} {end
\* chapter}", the book name repeated, so that the string parses back to the
\* same reference.
C23_WholeEndChapterRenderingQualified ==
    (Rendered /\ EndIsLaterChapter(ref)) =>
        text = Verse__str__(ref.start_verse) \o << HYPHEN >>
               \o (IF ref.start_verse.verse = None THEN IntToStr(ref.end_verse.chapter)
                   ELSE Verse__str__(ref.end_verse))

\* a reference from a verse to a whole later chapter of its book has been
\* rendered with the book name after the dash
C23_Witness ==
    /\ Rendered /\ EndIsLaterChapter(ref)
    /\ ref.start_verse.verse # None
    /\ ref.start_verse.chapter < ref.end_verse.chapter
    /\ Contains(text, << HYPHEN >> \o Book_value[ref.end_verse.book])

(* --------------------------- loading properties ------------------------ *)

\* get_scriptures cannot take the line: it has no separator, or its
\* reference field is not one from_string returns a reference for (the lines
\* of Joseph Smith are left out before they are parsed)
Malformed(line) ==
    \/ Len(split_fields(line)) # 2
    \/ /\ ~Contains(split_fields(line)[1], JosephSmith)
       /\ from_string(Strip(split_fields(line)[1])).status # "ok"

\* the index of the lines of t that are not malformed
IndexOfOtherLines(t) ==
    build_index(FileOfLines(SelectSeq(splitlines(t), LAMBDA line : ~Malformed(line))))

\* C24: the load tolerates a malformed line.  When the text with the expected
\* hash has a line without the field separator or with a reference field that
\* does not parse, get_scriptures() returns the index of all the other lines.
C24_MalformedLineSkipped ==
    (/\ pc = "load" /\ calls > 0
     /\ \E i \in DOMAIN splitlines(download_text_cache.value) :
           Malformed(splitlines(download_text_cache.value)[i])) =>
        /\ out = IndexOfOtherLines(download_text_cache.value)
        /\ out.status = "ok"
        /\ get_scriptures_cache = Cached(out.value)

\* the load of the file of the model, which has no malformed line, returns
\* the index
C24_CleanLoad ==
    /\ pc = "load" /\ calls > 0
    /\ download_text_cache.value = lds_scriptures
    /\ out = IndexOfOtherLines(lds_scriptures)
    /\ out.status = "ok"

(* --------------------------- pipeline properties ----------------------- *)

\* the elements of a list
Elements(list) == {list[i] : i \in DOMAIN list}

\* the citations of the lesson reference, as they stand between the
\* semicolons
LessonCitations == scripture_refs(text)

\* the anchors and the citations from_string returns a reference for
ParsingAnchors == {i \in DOMAIN anchors : from_string(reference_text(anchors[i])).status = "ok"}

ParsingCitations == {i \in DOMAIN LessonCitations : from_string(LessonCitations[i]).status = "ok"}

\* parse_from_text has returned the references of exactly the anchors that
\* parse
AnchorsHandledEach ==
    /\ internal_scriptural_references.status = "ok"
    /\ Len(internal_scriptural_references.value) = Cardinality(ParsingAnchors)
    /\ \A i \in ParsingAnchors :
          from_string(reference_text(anchors[i])).value
              \in Elements(internal_scriptural_references.value)

\* generate_scripture_insights has the chapters of every citation that
\* parses
CitationsHandledEach ==
    /\ lesson_chapters.status = "ok"
    /\ \A i \in ParsingCitations :
          Elements(split_chapters(from_string(LessonCitations[i]).value,
                                  get_scriptures_cache.value))
              \subseteq Elements(lesson_chapters.value)

\* C25: per-citation error handling.  In parse_from_text, and in
\* generate_scripture_insights on a lesson reference with semicolons, a
\* citation from_string raises a syntax or unknown-book error for does not
\* end the caller with that error and does not take away what the other
\* citations gave.
C25_PerCitationHandling ==
    /\ pc \in {"curriculum", "chapters"} => AnchorsHandledEach
    /\ (pc = "chapters" /\ Contains(text, << SEMICOLON >>)) => CitationsHandledEach

\* C25, the part of parse_from_text by itself
C25_ParseFromTextHandlesEach ==
    pc \in {"curriculum", "chapters"} => AnchorsHandledEach

\* parse_from_text has gone past an anchor with an unknown book and one that
\* does not match and has kept the reference of a later anchor
C25_ParseFromTextCase ==
    /\ pc = "curriculum"
    /\ Len(anchors) = 2
    /\ from_string(reference_text(anchors[1])).status \in {"ValueError", "ScriptureReferenceError"}
    /\ Len(internal_scriptural_references.value) = 1

(* ------------------------ range walk properties ------------------------ *)

\* the verses of the file whose line is a line of the text
EmittedVerses(t) ==
    {FileVerseAll[i] : i \in {k \in DOMAIN FileVerseAll :
        FileLines(k, k)[1] \in {splitlines(t)[n] : n \in DOMAIN splitlines(t)}}}

\* the verse v lies after the position e (a book, a chapter and, when e has
\* a verse number, a verse) in the order of the canon
PastEnd(v, e) ==
    \/ book_order(v.book) > book_order(e.book)
    \/ /\ v.book = e.book
       /\ \/ v.chapter > e.chapter
          \/ v.chapter = e.chapter /\ e.verse # None /\ v.verse > e.verse

\* C26: the range walk never passes the end.  For every range, one whose end
\* verse is not in the catalog included, every verse in the text
\* get_scripture_text returns lies at or before the end book, end chapter and
\* end verse of the reference.
C26_WalkStopsAtEnd ==
    (pc = "got_text" /\ ref.end_verse # NoVerse /\ out.status = "ok") =>
        \A v \in EmittedVerses(out.value) : ~PastEnd(v, ref.end_verse)

\* the same, for the ranges whose end is in the catalog
C26_WalkStopsAtEndInFile ==
    (pc = "got_text" /\ ref.end_verse # NoVerse /\ out.status = "ok" /\ InFile(ref.end_verse)) =>
        \A v \in EmittedVerses(out.value) : ~PastEnd(v, ref.end_verse)

\* the index get_scriptures() builds from the file, before any lookup
FreshIndex == build_index(lds_scriptures).value

\* C27: split_chapters does not depend on the history.  Whatever calls of
\* get_scripture_text and split_chapters the process made before, lookups of
\* chapters that are not in the catalog included, r.split_chapters() returns
\* the list it returns on the catalog as loaded.
C27_SplitIgnoresHistory ==
    (pc = "split" /\ out.status = "ok") => out.value = split_chapters(ref, FreshIndex)

\* the same, for the first call of a process
C27_SplitOnLoadedCatalog ==
    (pc = "split" /\ out.status = "ok" /\ calls = 1) => out.value = split_chapters(ref, FreshIndex)

\* generate_scripture_insights took the chapters from the set of the
\* except block
FallbackTaken ==
    /\ pc = "chapters"
    /\ lesson_chapters.status = "ok"
    /\ IsInstance(TryChapters(scripture_refs(text), 1, get_scriptures_cache.value, << >>).status,
                  "ScriptureReferenceError")

\* the references of the pipeline: the internal references and the chapters
PipelineReferences ==
    Elements(OrEmpty(internal_scriptural_references)) \cup Elements(OrEmpty(lesson_chapters))

\* C28: the hash agrees with equality.  Any two references that compare
\* equal, a reference with its end equal to its start and the same reference
\* without end included, have the same hash, and the set the fallback of
\* generate_scripture_insights builds from a list of references holds no two
\* equal references.
C28_HashAgreesWithEquality ==
    /\ \A x, y \in PipelineReferences :
          ScriptureReference__eq__(x, y) =>
              ScriptureReference__hash__(x) = ScriptureReference__hash__(y)
    /\ FallbackTaken =>
          \A i, j \in DOMAIN lesson_chapters.value :
              ScriptureReference__eq__(lesson_chapters.value[i], lesson_chapters.value[j])
                  => i = j

(* ------------------------- comparison properties ----------------------- *)

Over == pc \in {"returned", "raised"}

\* C30: split_chapters and get_scripture_text terminate on every reference
\* over a finite index, also when the end precedes the start, when the end
\* chapter or verse does not exist, and when the start book is not in the
\* index: every run of either call reaches its return or its raise.
C30_Terminates == <>Over

\* what the steps leave when the call is over is what the call computes on
\* the index it was given
C30_StepsComputeTheCall ==
    Over =>
        IF frame.fn = "split_chapters"
        THEN out = Returned(split_chapters(ref, Scriptures))
        ELSE /\ out = get_scripture_text(ref, Scriptures).out
             /\ Scriptures = get_scripture_text(ref, Scriptures).scriptures

\* the end of the reference is never met by the loops: it precedes the
\* start, or its chapter or verse is not in the index, or the start book is
\* not in the index
EndNeverMet ==
    /\ ref.end_verse # NoVerse
    /\ \/ ~NotAfter(ref.start_verse, ref.end_verse)
       \/ ref.end_verse.chapter > FileChapterCount(ref.end_verse.book)
       \/ /\ ref.end_verse.verse # None
          /\ ref.end_verse.verse > FileVerseCount(ref.end_verse.book, ref.end_verse.chapter)
       \/ ref.start_verse.book \notin DictKeys(Scriptures)

\* a get_scripture_text whose loops ran to the end of the index without
\* meeting the end, and returned
C30_Witness ==
    /\ pc = "returned"
    /\ frame.fn = "get_scripture_text"
    /\ EndNeverMet
    /\ ~frame.found_end
    /\ frame.i > Len(Scriptures)

\* a split_chapters whose loops ran to the end of the index without meeting
\* the end chapter, and returned
C30_SplitCase ==
    /\ pc = "returned"
    /\ frame.fn = "split_chapters"
    /\ EndNeverMet
    /\ frame.i > Len(Scriptures)
    /\ \A n \in DOMAIN out.value : out.value[n].end_verse # ref.end_verse

=============================================================================
